---- MODULE Spec2Model ----
(***************************************************************************)
(* Bare-Metal Test Framework (BMT): the test registry, the sequential      *)
(* runner bmt_run_all_tests with its setjmp/longjmp isolation of fatal     *)
(* failures, the failure reporter and the minimal formatter of             *)
(* src/src/bmt_runner.c, driven by test bodies written with the macros of  *)
(* src/include/baremetal_test.h.                                           *)
(*                                                                         *)
(* Text is a sequence of one-character strings.  A uint32_t is the pair    *)
(* <<high 16 bits, low 16 bits>>, so that arithmetic modulo 2^32 keeps its *)
(* width.  A long is a sign and a magnitude of 16-bit limbs.               *)
(***************************************************************************)
EXTENDS Integers, Sequences, FiniteSets, TLC

(***************************************************************************)
(* Bounds of the model.  The source sets BMT_MAX_TEST_CASES to 64; every   *)
(* guard of the registry and of the runner is written against the name, so *)
(* the registry is checked with a small capacity.                          *)
(***************************************************************************)
BMT_MAX_TEST_CASES == 2

\* Registration calls made while the image loads: enough to overflow.
MaxRegisterCalls == BMT_MAX_TEST_CASES + 1

\* Length of the oversized suite and test name offered to registration.
LongNameLen == 70

(***************************************************************************)
(* Program constants.                                                      *)
(***************************************************************************)
BMT_MAX_TEST_NAME_LEN == 64

BMT_MAX_SUITE_NAME_LEN == 64

\* One 16-bit limb of a uint32_t / long.
Limb == 65536

(***************************************************************************)
(* String literals of bmt_runner.c.                                        *)
(***************************************************************************)
Lit ==
    [ ERR_MAX |->
          <<"E", "R", "R", "O", "R", ":", " ", "M", "a", "x", " ", "t", "e",
            "s", "t", " ", "c", "a", "s", "e", "s", " ", "r", "e", "a", "c",
            "h", "e", "d", ".", " ", "I", "n", "c", "r", "e", "a", "s", "e",
            " ", "B", "M", "T", "_", "M", "A", "X", "_", "T", "E", "S", "T",
            "_", "C", "A", "S", "E", "S", ".", "\r", "\n">>,
      COLON |->
          <<":">>,
      FAILURE |->
          <<":", " ", "F", "a", "i", "l", "u", "r", "e", "\r", "\n">>,
      INDENT |->
          <<" ", " ">>,
      LPAREN |->
          <<"(">>,
      RPAREN_CRLF |->
          <<")", "\r", "\n">>,
      MESSAGE |->
          <<" ", " ", " ", " ", "M", "e", "s", "s", "a", "g", "e", ":", " ">>,
      NULLSTR |->
          <<"(", "n", "u", "l", "l", ")">>,
      PERCENT |->
          <<"%">>,
      CRLF |->
          <<"\r", "\n">>,
      RUNNING |->
          <<"[", "=", "=", "=", "=", "=", "=", "=", "=", "=", "=", "]", " ",
            "R", "u", "n", "n", "i", "n", "g", " ">>,
      TESTS_DOT |->
          <<" ", "t", "e", "s", "t", "s", ".", "\r", "\n">>,
      RUN |->
          <<"[", " ", "R", "U", "N", " ", " ", " ", " ", " ", " ", "]", " ">>,
      DOT |->
          <<".">>,
      OK |->
          <<"[", " ", " ", " ", " ", " ", " ", " ", "O", "K", " ", "]", " ">>,
      FAILED |->
          <<"[", " ", " ", "F", "A", "I", "L", "E", "D", " ", " ", "]", " ">>,
      OPEN_DUR |->
          <<" ", "(">>,
      MS |->
          <<" ", "m", "s", ")", "\r", "\n">>,
      BAR |->
          <<"[", "=", "=", "=", "=", "=", "=", "=", "=", "=", "=", "]", " ">>,
      TESTS_RAN |->
          <<" ", "t", "e", "s", "t", "s", " ", "r", "a", "n", ".", " ", "(">>,
      MS_TOTAL |->
          <<" ", "m", "s", " ", "t", "o", "t", "a", "l", ")", "\r", "\n">>,
      PASSED |->
          <<"[", " ", " ", "P", "A", "S", "S", "E", "D", " ", " ", "]", " ">>,
      LISTED |->
          <<" ", "t", "e", "s", "t", "s", ",", " ", "l", "i", "s", "t", "e",
            "d", " ", "b", "e", "l", "o", "w", ":", "\r", "\n">>,
      FAILED_TEST |->
          <<" ", "F", "A", "I", "L", "E", "D", " ", "T", "E", "S", "T", "\r",
            "\n">>,
      FAILED_TESTS |->
          <<" ", "F", "A", "I", "L", "E", "D", " ", "T", "E", "S", "T", "S",
            "\r", "\n">>,
      ZERO |->
          <<"0">>,
      MINUS |->
          <<"-">> ]

(***************************************************************************)
(* uint32_t arithmetic (start_ticks, end_ticks, duration_ms,               *)
(* total_duration_ms): every operation is taken modulo 2^32.               *)
(***************************************************************************)
U32Zero == <<0, 0>>

U32One == <<0, 1>>

\* The literal 0xFFFFFFFF of the duration computation.
U32Max == <<Limb - 1, Limb - 1>>

U32Add(a, b) ==
    LET lo == a[2] + b[2]
        hi == a[1] + b[1] + (lo \div Limb)
    IN  <<hi % Limb, lo % Limb>>

U32Sub(a, b) ==
    LET lo     == a[2] - b[2]
        borrow == IF lo < 0 THEN 1 ELSE 0
        hi     == a[1] - b[1] - borrow
    IN  <<(hi + Limb) % Limb, (lo + Limb) % Limb>>

U32Ge(a, b) == a[1] > b[1] \/ (a[1] = b[1] /\ a[2] >= b[2])

\* Mutation: the wrapped branch without its + 1.
Duration_NoPlusOne(start_t, end_t) ==
    IF U32Ge(end_t, start_t)
    THEN U32Sub(end_t, start_t)
    ELSE U32Add(U32Sub(U32Max, start_t), end_t)

\* duration_ms = (end >= start) ? (end - start)
\*                              : (0xFFFFFFFF - start + end + 1)
Duration(start_t, end_t) ==
    IF U32Ge(end_t, start_t)
    THEN U32Sub(end_t, start_t)
    ELSE U32Add(U32Add(U32Sub(U32Max, start_t), end_t), U32One)

(***************************************************************************)
(* The long type: [neg, mag], mag a big-endian sequence of 16-bit limbs.   *)
(* long_bits (32 or 64) is the width of long on the platform.              *)
(***************************************************************************)
IsZero(m) == \A k \in 1..Len(m) : m[k] = 0

RECURSIVE Strip(_)
Strip(m) ==
    IF m = <<>> \/ m[1] # 0 THEN m ELSE Strip(Tail(m))

\* An int argument (a count, a line number) widened to long.
IntToLong(n) ==
    [neg |-> n < 0, mag |-> <<0, IF n < 0 THEN 0 - n ELSE n>>]

\* A uint32_t argument converted to long: value-preserving when long has
\* 64 bits, reduced modulo 2^32 into the signed range when it has 32.
U32ToLong(u, bits) ==
    IF bits = 32 /\ u[1] >= Limb \div 2
    THEN [neg |-> TRUE, mag |-> U32Sub(U32Zero, u)]
    ELSE [neg |-> FALSE, mag |-> u]

\* The most negative long, whose negation overflows.
IsLongMin(val, bits) ==
    /\ val.neg
    /\ Strip(val.mag) = <<Limb \div 2>> \o [k \in 1..((bits \div 16) - 1) |-> 0]

\* Long division of a magnitude by ten, most significant limb first.
RECURSIVE DivMod10(_, _)
DivMod10(m, rem) ==
    IF m = <<>>
    THEN [quot |-> <<>>, rem |-> rem]
    ELSE LET x    == rem * Limb + m[1]
             rest == DivMod10(Tail(m), x % 10)
         IN  [quot |-> <<x \div 10>> \o rest.quot, rem |-> rest.rem]

DigitChar == <<"0", "1", "2", "3", "4", "5", "6", "7", "8", "9">>

\* The digits the two loops of bmt_itoa leave in buf, most significant first.
\* (The quotient and remainder d are bound through a set so that each
\* division is computed once.)
RECURSIVE Digits(_)
Digits(t) ==
    IF IsZero(t)
    THEN <<>>
    ELSE CHOOSE r \in {Append(Digits(d.quot), DigitChar[d.rem + 1]) :
                           d \in {DivMod10(t, 0)}} : TRUE

\* bmt_itoa(val, buf, 10) for every val whose negation is defined.
bmt_itoa(val) ==
    IF IsZero(val.mag)
    THEN Lit.ZERO
    ELSE (IF val.neg THEN Lit.MINUS ELSE <<>>) \o Digits(val.mag)

\* t = -t overflows for the most negative long: the build either wraps
\* (t stays negative, both loops are skipped, buf holds "-") or negates
\* in a wider type (buf holds the sign and the magnitude).
bmt_itoa_outcomes(val, bits) ==
    IF IsLongMin(val, bits)
    THEN {Lit.MINUS, Lit.MINUS \o Digits(val.mag)}
    ELSE {bmt_itoa(val)}

(***************************************************************************)
(* Text of the macros of baremetal_test.h and of the test program.         *)
(***************************************************************************)
MacroText ==
    [ FILE |->
          <<"m", "a", "i", "n", "_", "t", "e", "s", "t", "s", ".", "c">>,
      SUCCEED |->
          <<":", " ", "S", "U", "C", "C", "E", "E", "D", "(", ")", "\r", "\n">>,
      ASSERT_EQ |->
          <<"A", "S", "S", "E", "R", "T", "_", "E", "Q">>,
      EXPECT_EQ |->
          <<"E", "X", "P", "E", "C", "T", "_", "E", "Q">>,
      EXPECT_TRUE |->
          <<"E", "X", "P", "E", "C", "T", "_", "T", "R", "U", "E">>,
      ADD_FAILURE |->
          <<"A", "D", "D", "_", "F", "A", "I", "L", "U", "R", "E">>,
      ADD_FAILURE_EXPR |->
          <<"E", "x", "p", "l", "i", "c", "i", "t", " ", "f", "a", "i", "l",
            "u", "r", "e", " ", "t", "r", "i", "g", "g", "e", "r", "e", "d",
            " ", "b", "y", " ", "A", "D", "D", "_", "F", "A", "I", "L", "U",
            "R", "E", "(", ")">>,
      EQ |->
          <<" ", "=", "=", " ">>,
      EXPECTED_ACTUAL |->
          <<"E", "x", "p", "e", "c", "t", "e", "d", ":", " ", "%", "l", "d",
            ",", " ", "A", "c", "t", "u", "a", "l", ":", " ", "%", "l", "d">> ]

TestText ==
    [ BasicMath |->
          <<"B", "a", "s", "i", "c", "M", "a", "t", "h">>,
      EdgeCasesAndBugs |->
          <<"E", "d", "g", "e", "C", "a", "s", "e", "s", "A", "n", "d", "B",
            "u", "g", "s">>,
      FrameworkDemo |->
          <<"F", "r", "a", "m", "e", "w", "o", "r", "k", "D", "e", "m", "o">>,
      Subtraction |->
          <<"S", "u", "b", "t", "r", "a", "c", "t", "i", "o", "n">>,
      NullPointer |->
          <<"P", "o", "t", "e", "n", "t", "i", "a", "l", "l", "y", "B", "u",
            "g", "g", "y", "F", "u", "n", "c", "t", "i", "o", "n", "_", "N",
            "u", "l", "l", "P", "o", "i", "n", "t", "e", "r">>,
      IntentionallyFailingAssert |->
          <<"I", "n", "t", "e", "n", "t", "i", "o", "n", "a", "l", "l", "y",
            "F", "a", "i", "l", "i", "n", "g", "A", "s", "s", "e", "r", "t">>,
      IntentionallyFailingExpect |->
          <<"I", "n", "t", "e", "n", "t", "i", "o", "n", "a", "l", "l", "y",
            "F", "a", "i", "l", "i", "n", "g", "E", "x", "p", "e", "c", "t">>,
      AddFailureThenPuts |->
          <<"A", "d", "d", "F", "a", "i", "l", "u", "r", "e", "T", "h", "e",
            "n", "P", "u", "t", "s">>,
      ExpectThenAssert |->
          <<"E", "x", "p", "e", "c", "t", "T", "h", "e", "n", "A", "s", "s",
            "e", "r", "t">>,
      SUB_5_3 |->
          <<"s", "u", "b", "t", "r", "a", "c", "t", "(", "5", ",", " ", "3",
            ")">>,
      SUB_3_5 |->
          <<"s", "u", "b", "t", "r", "a", "c", "t", "(", "3", ",", " ", "5",
            ")">>,
      SUB_0_0 |->
          <<"s", "u", "b", "t", "r", "a", "c", "t", "(", "0", ",", " ", "0",
            ")">>,
      SUB_10_5 |->
          <<"s", "u", "b", "t", "r", "a", "c", "t", "(", "1", "0", ",", " ",
            "5", ")">>,
      OUTPUT |->
          <<"o", "u", "t", "p", "u", "t">>,
      N0 |->
          <<"0">>,
      N1 |->
          <<"1">>,
      N2 |->
          <<"2">>,
      N5 |->
          <<"5">>,
      NEG2 |->
          <<"-", "2">>,
      N123 |->
          <<"1", "2", "3">>,
      E_0_GT_1 |->
          <<"0", " ", ">", " ", "1">>,
      CustomMessage |->
          <<"C", "u", "s", "t", "o", "m", "M", "e", "s", "s", "a", "g", "e">>,
      SucceedAfterExpect |->
          <<"S", "u", "c", "c", "e", "e", "d", "A", "f", "t", "e", "r", "E",
            "x", "p", "e", "c", "t">>,
      HI |->
          <<"h", "i">>,
      NEVER |->
          <<"E", "s", "t", "a", " ", "l", "i", "n", "e", "a", " ", "N", "U",
            "N", "C", "A", " ", "s", "e", " ", "i", "m", "p", "r", "i", "m",
            "i", "r", "a", ".", "\r", "\n">>,
      AFTER_EXPECT |->
          <<"E", "s", "t", "a", " ", "l", "i", "n", "e", "a", " ", "S", "I",
            " ", "s", "e", " ", "i", "m", "p", "r", "i", "m", "i", "r", "a",
            " ", "d", "e", "s", "p", "u", "e", "s", " ", "d", "e", " ", "E",
            "X", "P", "E", "C", "T", ".", "\r", "\n">>,
      AFTER_ADD_FAILURE |->
          <<"a", "f", "t", "e", "r", " ", "A", "D", "D", "_", "F", "A", "I",
            "L", "U", "R", "E", "\r", "\n">> ]

(***************************************************************************)
(* Calls on the output channel, in order.                                  *)
(***************************************************************************)
Puts(str) == [call |-> "puts", str |-> str]

Putchar(c) == [call |-> "putchar", str |-> <<c>>]

\* The terminating NUL character of a C string.
NUL == "\\0"

(***************************************************************************)
(* Variadic arguments of bmt_report_failure.                               *)
(***************************************************************************)
LongArg(n) == [type |-> "long", val |-> IntToLong(n), str |-> <<>>]

StrArg(s) == [type |-> "str", val |-> IntToLong(0), str |-> s]

NullStrArg == [type |-> "null", val |-> IntToLong(0), str |-> <<>>]

\* An unsigned int argument.
UIntArg(n) == [type |-> "uint", val |-> IntToLong(n), str |-> <<>>]

(***************************************************************************)
(* bmt_report_failure.                                                     *)
(***************************************************************************)
\* sizeof(buffer) of the "  kind(expr)" line.
ReportBufferSize == 256

\* strncat(dst, src, n): at most n characters of src are appended.
Strncat(dst, src, n) ==
    dst \o SubSeq(src, 1, IF Len(src) < n THEN Len(src) ELSE n)

\* What the scan reads at position p of mem, the template with its
\* terminator and what follows it in memory up to the next '\0'.
CharAt(mem, p) == IF p <= Len(mem) THEN mem[p] ELSE NUL

\* A va_arg read that finds no argument of the requested type has no
\* defined result.
UndefinedRead == [call |-> "undefined", str |-> <<>>]

\* Mutation: a null string argument prints as the empty string.
PutsStrArg_NullAsEmpty(args, a) ==
    IF a <= Len(args) /\ args[a].type = "str" THEN Puts(args[a].str)
    ELSE IF a <= Len(args) /\ args[a].type = "null" THEN Puts(<<>>)
    ELSE UndefinedRead

\* %s: s_arg = va_arg(args, const char*); puts(s_arg ? s_arg : "(null)").
PutsStrArg(args, a) ==
    IF a <= Len(args) /\ args[a].type = "str" THEN Puts(args[a].str)
    ELSE IF a <= Len(args) /\ args[a].type = "null" THEN Puts(Lit.NULLSTR)
    ELSE UndefinedRead

\* char temp_buf[20], the buffer of a %ld conversion.
ConversionBufferSize == 20

\* char line_buf[12], the buffer of the line number.
LineBufferSize == 12

\* A conversion wrote text and its terminator past the end of its buffer.
Overrun(text) == [call |-> "overrun", str |-> text]

\* bmt_itoa(val, buf, 10); bmt_platform_puts(buf), buf of size bytes.
\* (The text is bound through a set so that it is converted once.)
PutsConverted(text, size) ==
    CHOOSE c \in {IF Len(t) + 1 <= size THEN Puts(t) ELSE Overrun(t) :
                      t \in {text}} : TRUE

\* %ld: d_arg = va_arg(args, long); bmt_itoa(d_arg, temp_buf, 10); puts.
PutsLongArg(args, a) ==
    IF a <= Len(args) /\ args[a].type = "long"
    THEN PutsConverted(bmt_itoa(args[a].val), ConversionBufferSize)
    ELSE UndefinedRead

\* Mutation: the character after the % is dropped.
EmitVerbatim_DropsChar(c) == <<Putchar("%")>>

\* An unrecognised directive: putchar('%'); putchar(*p).
EmitVerbatim(c) == <<Putchar("%"), Putchar(c)>>

\* The while(*p) loop over msg_fmt.  mem is the memory at msg_fmt; a is the
\* index of the next variadic argument.
RECURSIVE FormatMessage(_, _, _, _)
FormatMessage(mem, p, args, a) ==
    IF CharAt(mem, p) = NUL
    THEN <<>>
    ELSE IF mem[p] = "%"
    THEN IF CharAt(mem, p + 1) = "s"
         THEN <<PutsStrArg(args, a)>>
                  \o FormatMessage(mem, p + 2, args, a + 1)
         ELSE IF CharAt(mem, p + 1) = "l" /\ CharAt(mem, p + 2) = "d"
         THEN <<PutsLongArg(args, a)>>
                  \o FormatMessage(mem, p + 3, args, a + 1)
         ELSE EmitVerbatim(CharAt(mem, p + 1))
                  \o FormatMessage(mem, p + 2, args, a)
    ELSE <<Putchar(mem[p])>> \o FormatMessage(mem, p + 1, args, a)

\* What the memory holds after the terminator of a message template, up to
\* the next '\0': nothing of the template, so any of these.
MemoryAfter == {<<>>, <<"x">>, <<"%", "s">>}

\* sizeof(buffer) - strlen(buffer) - 2, the bound handed to strncat.
ExpressionRoom(used) == ReportBufferSize - used - 2

\* The content of buffer after strcpy, strcat, strcat, strncat, strcat.
ExprLine(assertion_type, expression) ==
    LET b1 == Lit.INDENT \o assertion_type \o Lit.LPAREN
        b2 == Strncat(b1, expression, ExpressionRoom(Len(b1)))
    IN  b2 \o Lit.RPAREN_CRLF

\* A write past the end of buffer has no defined result.
UndefinedWrite == [call |-> "undefined", str |-> <<>>]

\* puts(buffer): the line when it fits the array with its terminator;
\* otherwise the strcat calls wrote past the array, and the build either
\* prints the bytes it wrote or does anything else.
PutsBuffer(assertion_type, expression) ==
    LET buffer == ExprLine(assertion_type, expression)
    IN  IF Len(buffer) + 1 <= ReportBufferSize
        THEN {Puts(buffer)}
        ELSE {Puts(buffer), UndefinedWrite}

\* Mutation: the message line is written whether or not msg_fmt is NULL.
MessageLine_Always(has_msg, msg_fmt, args, beyond) ==
    <<Puts(Lit.MESSAGE)>>
        \o FormatMessage(msg_fmt \o <<NUL>> \o beyond \o <<NUL>>, 1, args, 1)
        \o <<Puts(Lit.CRLF)>>

\* if (msg_fmt) { puts("    Message: "); the scan; puts("\r\n"); }
\* has_msg is msg_fmt != NULL; beyond is what follows the template in memory.
MessageLine(has_msg, msg_fmt, args, beyond) ==
    IF has_msg
    THEN <<Puts(Lit.MESSAGE)>>
             \o FormatMessage(msg_fmt \o <<NUL>> \o beyond \o <<NUL>>, 1,
                              args, 1)
             \o <<Puts(Lit.CRLF)>>
    ELSE <<>>

\* The outputs one bmt_report_failure call can produce.
\* The calls as the channel sees them when a conversion among them overran
\* its buffer: the text comes out as if the buffer were larger, or the
\* write past the buffer has no defined result.
Resolved(calls, harmful) ==
    [k \in 1..Len(calls) |->
        IF calls[k].call = "overrun"
        THEN (IF harmful THEN UndefinedWrite ELSE Puts(calls[k].str))
        ELSE calls[k]]

\* The outcomes of a report: the calls themselves when every conversion
\* stayed within its buffer.
OverrunOutcomes(calls) ==
    IF \A k \in 1..Len(calls) : calls[k].call # "overrun"
    THEN {calls}
    ELSE {Resolved(calls, harmful) : harmful \in BOOLEAN}

\* (The calls are bound through a set so that each report is computed
\* once.)
bmt_report_failure(file, line, assertion_type, expression, has_msg, msg_fmt, args) ==
    UNION { OverrunOutcomes(calls) :
                calls \in
                    { <<Puts(file), Putchar(":"),
                        PutsConverted(bmt_itoa(IntToLong(line)),
                                      LineBufferSize),
                        Puts(Lit.FAILURE), l>>
                          \o MessageLine(has_msg, msg_fmt, args, beyond) :
                          l \in PutsBuffer(assertion_type, expression),
                          beyond \in MemoryAfter } }

(***************************************************************************)
(* Statements of a test body: the macros of baremetal_test.h after         *)
(* expansion, with the value the checked condition takes.                  *)
(***************************************************************************)
Stmt(op, cond, line, kind, expr, has_msg, fmt, args, text) ==
    [op |-> op, cond |-> cond, line |-> line, kind |-> kind, expr |-> expr,
     has_msg |-> has_msg, fmt |-> fmt, args |-> args, text |-> text,
     evals |-> <<>>]

\* Statement s, of a macro that evaluates its operands as often as e says.
Evaluating(s, e) == [s EXCEPT !.evals = e]

\* A comparison macro names each operand once in its condition and once
\* more among the message arguments, which are evaluated only inside
\* if (!(condition)).
EqEvaluations(cond) == IF cond THEN <<1, 1>> ELSE <<2, 2>>

\* ASSERT_EQ(val1, val2): BMT_ASSERT_COMMON on (long)val1 == (long)val2.
ASSERT_EQ(line, t1, t2, v1, v2) ==
    Evaluating(Stmt("ASSERT", v1 = v2, line, MacroText.ASSERT_EQ,
                    t1 \o MacroText.EQ \o t2, TRUE,
                    MacroText.EXPECTED_ACTUAL,
                    <<LongArg(v1), LongArg(v2)>>, <<>>),
               EqEvaluations(v1 = v2))

\* EXPECT_EQ(val1, val2): BMT_EXPECT_COMMON on (long)val1 == (long)val2.
EXPECT_EQ(line, t1, t2, v1, v2) ==
    Evaluating(Stmt("EXPECT", v1 = v2, line, MacroText.EXPECT_EQ,
                    t1 \o MacroText.EQ \o t2, TRUE,
                    MacroText.EXPECTED_ACTUAL,
                    <<LongArg(v1), LongArg(v2)>>, <<>>),
               EqEvaluations(v1 = v2))

\* BMT_EXPECT_COMMON(condition, assertion_type, expr_str, msg_fmt, ...)
\* written in a test body with a message template of its own.
BMT_EXPECT_COMMON(line, cond, assertion_type, expr_str, fmt, args) ==
    Stmt("EXPECT", cond, line, assertion_type, expr_str, TRUE, fmt, args,
         <<>>)

\* EXPECT_TRUE(condition): BMT_EXPECT_COMMON on !!(condition), no message.
EXPECT_TRUE(line, t, cond) ==
    Stmt("EXPECT", cond, line, MacroText.EXPECT_TRUE, t, FALSE, <<>>, <<>>,
         <<>>)

\* Text of EXPECT_NOT_NULL and of a test that checks a long expression.
ExprTestText ==
    [ EXPECT_NOT_NULL |->
          <<"E", "X", "P", "E", "C", "T", "_", "N", "O", "T", "_", "N", "U",
            "L", "L">>,
      NOT_NULL |->
          <<" ", "!", "=", " ", "N", "U", "L", "L">>,
      LongExpression |->
          <<"L", "o", "n", "g", "E", "x", "p", "r", "e", "s", "s", "i", "o",
            "n">> ]

\* EXPECT_NOT_NULL(ptr): BMT_EXPECT_COMMON on (ptr) != NULL, no message.
EXPECT_NOT_NULL(line, t, cond) ==
    Stmt("EXPECT", cond, line, ExprTestText.EXPECT_NOT_NULL,
         t \o ExprTestText.NOT_NULL, FALSE, <<>>, <<>>, <<>>)

\* ADD_FAILURE(): a bare bmt_report_failure call.
ADD_FAILURE(line) ==
    Stmt("ADD_FAILURE", FALSE, line, MacroText.ADD_FAILURE,
         MacroText.ADD_FAILURE_EXPR, FALSE, <<>>, <<>>, <<>>)

\* SUCCEED(): three output calls.
SUCCEED(line) ==
    Stmt("SUCCEED", TRUE, line, <<>>, <<>>, FALSE, <<>>, <<>>, <<>>)

\* A bmt_platform_puts call written in the test body itself.
UserPuts(line, text) ==
    Stmt("PUTS", TRUE, line, <<>>, <<>>, FALSE, <<>>, <<>>, text)

(***************************************************************************)
(* The string checks of baremetal_test.h.                                  *)
(***************************************************************************)
StringMacroText ==
    [ ASSERT_STREQ |->
          <<"A", "S", "S", "E", "R", "T", "_", "S", "T", "R", "E", "Q">>,
      ASSERT_STRNE |->
          <<"A", "S", "S", "E", "R", "T", "_", "S", "T", "R", "N", "E">>,
      ASSERT_STRNEQ |->
          <<"A", "S", "S", "E", "R", "T", "_", "S", "T", "R", "N", "E", "Q">>,
      EXPECT_STREQ |->
          <<"E", "X", "P", "E", "C", "T", "_", "S", "T", "R", "E", "Q">>,
      EXPECT_STRNE |->
          <<"E", "X", "P", "E", "C", "T", "_", "S", "T", "R", "N", "E">>,
      EXPECT_STRNEQ |->
          <<"E", "X", "P", "E", "C", "T", "_", "S", "T", "R", "N", "E", "Q">>,
      STREQ |->
          <<" ", "S", "T", "R", "E", "Q", " ">>,
      STRNE |->
          <<" ", "S", "T", "R", "N", "E", " ">>,
      STRNEQ_OPEN |->
          <<" ", "S", "T", "R", "N", "E", "Q", "(">>,
      STRNEQ_CLOSE |->
          <<")", " ">>,
      NULL_TEXT |->
          <<"N", "U", "L", "L">>,
      STREQ_MSG |->
          <<"E", "x", "p", "e", "c", "t", "e", "d", ":", " ", "\"", "%", "s",
            "\"", ",", " ", "A", "c", "t", "u", "a", "l", ":", " ", "\"", "%",
            "s", "\"">>,
      STRNE_MSG |->
          <<"E", "x", "p", "e", "c", "t", "e", "d", " ", "s", "t", "r", "i",
            "n", "g", "s", " ", "t", "o", " ", "b", "e", " ", "d", "i", "f",
            "f", "e", "r", "e", "n", "t", ".", " ", "s", "1", ":", " ", "\"",
            "%", "s", "\"", ",", " ", "s", "2", ":", " ", "\"", "%", "s",
            "\"">>,
      STRNEQ_MSG |->
          <<"E", "x", "p", "e", "c", "t", "e", "d", " ", "f", "i", "r", "s",
            "t", " ", "%", "u", " ", "c", "h", "a", "r", "s", ":", " ", "\"",
            "%", "s", "\"", ",", " ", "A", "c", "t", "u", "a", "l", ":", " ",
            "\"", "%", "s", "\"">> ]

\* strcmp(a, b) on the memory of two strings, from position k: 0 when the
\* strings agree up to and including their terminator, 1 (standing for any
\* non-zero value) at the first difference.
RECURSIVE StrcmpFrom(_, _, _)
StrcmpFrom(a, b, k) ==
    IF CharAt(a, k) # CharAt(b, k) THEN 1
    ELSE IF CharAt(a, k) = NUL THEN 0
    ELSE StrcmpFrom(a, b, k + 1)

strcmp(a, b) == StrcmpFrom(a \o <<NUL>>, b \o <<NUL>>, 1)

\* strncmp(a, b, n): as strcmp, over at most n characters.
RECURSIVE StrncmpFrom(_, _, _, _)
StrncmpFrom(a, b, n, k) ==
    IF k > n THEN 0
    ELSE IF CharAt(a, k) # CharAt(b, k) THEN 1
    ELSE IF CharAt(a, k) = NUL THEN 0
    ELSE StrncmpFrom(a, b, n, k + 1)

strncmp(a, b, n) == StrncmpFrom(a \o <<NUL>>, b \o <<NUL>>, n, 1)

\* Mutation: the comparison is called without the two tests against NULL
\* (a build in which reading through NULL finds an empty string).
StrcmpCalls_NoNullCheck(s1, s2) == {<<s1, s2>>}

\* (s1) != NULL && (s2) != NULL && <comparison>: && evaluates left to right
\* and stops at the first false operand, so the comparison is called, on
\* these pointers, only when both tests succeeded.
StrcmpCalls(s1, s2) ==
    IF s1.type # "null"
    THEN IF s2.type # "null" THEN {<<s1, s2>>} ELSE {}
    ELSE {}

\* ((s1) != NULL && (s2) != NULL && strcmp((s1), (s2)) == 0)
StreqCondition(s1, s2) ==
    \E c \in StrcmpCalls(s1, s2) : strcmp(c[1].str, c[2].str) = 0

\* ((s1) != NULL && (s2) != NULL && strncmp((s1), (s2), (n)) == 0)
StrneqCondition(s1, s2, n) ==
    \E c \in StrcmpCalls(s1, s2) : strncmp(c[1].str, c[2].str, n) = 0

\* (s) ? (s) : "NULL", the message argument of a string check.
OrNullText(s) ==
    IF s.type = "null" THEN StrArg(StringMacroText.NULL_TEXT) ELSE s

\* 1 for a true condition, 0 for a false one.
Times(b) == IF b THEN 1 ELSE 0

\* How often a string check names s1 and s2 on the path it takes: the
\* condition tests (s1) != NULL, then (s2) != NULL if that held, then
\* passes both to the comparison if both held; a failed check evaluates
\* (s) ? (s) : "NULL" for each, which names a non-null s twice.
StringEvaluations(s1, s2, passed) ==
    LET n1 == s1.type # "null"
        n2 == s2.type # "null"
        c1 == 1 + Times(n1 /\ n2)
        c2 == Times(n1) + Times(n1 /\ n2)
    IN  IF passed
        THEN <<c1, c2>>
        ELSE <<c1 + 1 + Times(n1), c2 + 1 + Times(n2)>>

\* The same for a check of the first n characters: n is named in the
\* comparison, and once more as (unsigned int)(n) when the check fails.
StrneqEvaluations(s1, s2, passed) ==
    StringEvaluations(s1, s2, passed)
        \o <<Times(s1.type # "null" /\ s2.type # "null")
                + Times(~passed)>>

ASSERT_STREQ(line, t1, t2, s1, s2) ==
    Evaluating(
        Stmt("ASSERT", StreqCondition(s1, s2), line,
             StringMacroText.ASSERT_STREQ, t1 \o StringMacroText.STREQ \o t2,
             TRUE, StringMacroText.STREQ_MSG,
             <<OrNullText(s1), OrNullText(s2)>>, <<>>),
        StringEvaluations(s1, s2, StreqCondition(s1, s2)))

ASSERT_STRNE(line, t1, t2, s1, s2) ==
    Evaluating(
        Stmt("ASSERT", ~StreqCondition(s1, s2), line,
             StringMacroText.ASSERT_STRNE, t1 \o StringMacroText.STRNE \o t2,
             TRUE, StringMacroText.STRNE_MSG,
             <<OrNullText(s1), OrNullText(s2)>>, <<>>),
        StringEvaluations(s1, s2, ~StreqCondition(s1, s2)))

EXPECT_STREQ(line, t1, t2, s1, s2) ==
    Evaluating(
        Stmt("EXPECT", StreqCondition(s1, s2), line,
             StringMacroText.EXPECT_STREQ, t1 \o StringMacroText.STREQ \o t2,
             TRUE, StringMacroText.STREQ_MSG,
             <<OrNullText(s1), OrNullText(s2)>>, <<>>),
        StringEvaluations(s1, s2, StreqCondition(s1, s2)))

EXPECT_STRNE(line, t1, t2, s1, s2) ==
    Evaluating(
        Stmt("EXPECT", ~StreqCondition(s1, s2), line,
             StringMacroText.EXPECT_STRNE, t1 \o StringMacroText.STRNE \o t2,
             TRUE, StringMacroText.STRNE_MSG,
             <<OrNullText(s1), OrNullText(s2)>>, <<>>),
        StringEvaluations(s1, s2, ~StreqCondition(s1, s2)))

\* ASSERT_STRNEQ(s1, s2, n): the message arguments are (unsigned int)(n),
\* then the two strings.
ASSERT_STRNEQ(line, t1, t2, tn, s1, s2, n) ==
    Evaluating(
        Stmt("ASSERT", StrneqCondition(s1, s2, n), line,
             StringMacroText.ASSERT_STRNEQ,
             t1 \o StringMacroText.STRNEQ_OPEN \o tn
                \o StringMacroText.STRNEQ_CLOSE \o t2,
             TRUE, StringMacroText.STRNEQ_MSG,
             <<UIntArg(n), OrNullText(s1), OrNullText(s2)>>, <<>>),
        StrneqEvaluations(s1, s2, StrneqCondition(s1, s2, n)))

EXPECT_STRNEQ(line, t1, t2, tn, s1, s2, n) ==
    Evaluating(
        Stmt("EXPECT", StrneqCondition(s1, s2, n), line,
             StringMacroText.EXPECT_STRNEQ,
             t1 \o StringMacroText.STRNEQ_OPEN \o tn
                \o StringMacroText.STRNEQ_CLOSE \o t2,
             TRUE, StringMacroText.STRNEQ_MSG,
             <<UIntArg(n), OrNullText(s1), OrNullText(s2)>>, <<>>),
        StrneqEvaluations(s1, s2, StrneqCondition(s1, s2, n)))

\* Text of a test program that checks two string pointers s1 and s2.
StringTestText ==
    [ StringChecks |->
          <<"S", "t", "r", "i", "n", "g", "C", "h", "e", "c", "k", "s">>,
      StringEq |->
          <<"S", "t", "r", "i", "n", "g", "E", "q">>,
      StringNe |->
          <<"S", "t", "r", "i", "n", "g", "N", "e">>,
      S1 |->
          <<"s", "1">>,
      S2 |->
          <<"s", "2">>,
      HO |->
          <<"h", "o">>,
      H |->
          <<"h">> ]

(***************************************************************************)
(* State.                                                                  *)
(***************************************************************************)
VARIABLES
    g_bmt_test_cases,                 \* the registry array, indexed from 0
    g_bmt_test_count,                 \* number of registered test cases
    g_bmt_assert_jmp_buf,             \* iteration whose setjmp it holds, -1 if none
    g_bmt_current_test_failed_expect, \* the non-fatal-failure flag
    pc,                               \* "load", "loop", "body", "after", "returned", "exited"
    i,                                \* loop index of bmt_run_all_tests
    ip,                               \* next statement of the running test body
    current_test_passed_assert,       \* local of the loop body
    start_ticks,                      \* local of the loop body
    end_ticks,                        \* local of the loop body
    tests_passed,                     \* local of bmt_run_all_tests
    tests_failed,                     \* local of bmt_run_all_tests
    total_duration_ms,                \* local of bmt_run_all_tests
    ret,                              \* value returned by bmt_run_all_tests, -1 before
    exit_status,                      \* value returned by main, -1 before
    operand_evals,                    \* history: operand evaluations of each check
    out,                              \* calls made on the output channel
    io_init_calls,                    \* history: the point of each bmt_platform_io_init call
    long_bits,                        \* width of long on the platform
    user_fmt,                         \* test program data: a message template
    user_args,                        \* test program data: its arguments
    user_expr,                        \* test program data: the text of a checked expression
    register_calls,                   \* history: arguments of each bmt_register_test call
    trace                             \* history: events of the run

vars ==
    <<g_bmt_test_cases, g_bmt_test_count, g_bmt_assert_jmp_buf,
      g_bmt_current_test_failed_expect, pc, i, ip, current_test_passed_assert,
      start_ticks, end_ticks, tests_passed, tests_failed, total_duration_ms,
      ret, exit_status, operand_evals, out, io_init_calls, long_bits,
      user_fmt, user_args,
      user_expr, register_calls, trace>>

registry == <<g_bmt_test_cases, g_bmt_test_count>>

run_locals ==
    <<i, ip, current_test_passed_assert, start_ticks, end_ticks, tests_passed,
      tests_failed, total_duration_ms, ret>>

\* What no step of the program changes: the width of long and the constant
\* data of the test program.
environment == <<long_bits, user_fmt, user_args, user_expr>>

(***************************************************************************)
(* Test functions: what bmt_test_case_t.func points to.                    *)
(***************************************************************************)
\* Text of tests whose checks read how often the run has been entered.
RerunTestText ==
    [ Rerun |->
          <<"R", "e", "r", "u", "n">>,
      PassesFirstRunOnly |->
          <<"P", "a", "s", "s", "e", "s", "F", "i", "r", "s", "t", "R", "u",
            "n", "O", "n", "l", "y">>,
      FailsFirstRunOnly |->
          <<"F", "a", "i", "l", "s", "F", "i", "r", "s", "t", "R", "u", "n",
            "O", "n", "l", "y">>,
      ExpectsFirstRun |->
          <<"E", "x", "p", "e", "c", "t", "s", "F", "i", "r", "s", "t", "R",
            "u", "n">>,
      RUNS |->
          <<"r", "u", "n", "s">>,
      N2 |->
          <<"2">> ]

\* The test program's count of the runs it has started.
runs == Len(io_init_calls)

\* Text of a test that compares a long variable with 0.
LongTestText ==
    [ LongValue |->
          <<"L", "o", "n", "g", "V", "a", "l", "u", "e">>,
      BIG |->
          <<"b", "i", "g">> ]

\* A line number of ten digits, as a #line directive can set it.
TenDigitLine == 2147000000

\* Name of a test that goes on checking after a non-fatal failure.
FlagTestText ==
    [ FlagKept |->
          <<"F", "l", "a", "g", "K", "e", "p", "t">> ]

TestFuncs ==
    {"Subtraction", "NullPointer", "IntentionallyFailingAssert",
     "IntentionallyFailingExpect", "AddFailureThenPuts", "ExpectThenAssert",
     "CustomMessage", "SucceedAfterExpect", "StringEq", "StringNe",
     "LongExpression", "FlagKept", "PassesFirstRunOnly",
     "FailsFirstRunOnly", "ExpectsFirstRun", "LongValue"}

TestBody(func) ==
    CASE func = "Subtraction" ->
           <<ASSERT_EQ(34, TestText.SUB_5_3, TestText.N2, 2, 2),
             ASSERT_EQ(35, TestText.SUB_3_5, TestText.NEG2, -2, -2),
             ASSERT_EQ(36, TestText.SUB_0_0, TestText.N0, 0, 0),
             EXPECT_EQ(37, TestText.SUB_10_5, TestText.N5, 5, 5)>>
      [] func = "NullPointer" ->
           <<SUCCEED(190)>>
      [] func = "IntentionallyFailingAssert" ->
           <<ASSERT_EQ(216, TestText.N1, TestText.N0, 1, 0),
             UserPuts(217, TestText.NEVER)>>
      [] func = "IntentionallyFailingExpect" ->
           <<EXPECT_EQ(224, TestText.N1, TestText.N0, 1, 0),
             UserPuts(225, TestText.AFTER_EXPECT),
             EXPECT_TRUE(226, TestText.E_0_GT_1, FALSE),
             ASSERT_EQ(227, TestText.N5, TestText.N5, 5, 5)>>
      [] func = "AddFailureThenPuts" ->
           <<ASSERT_EQ(199, TestText.OUTPUT, TestText.N123, 123, 123),
             ADD_FAILURE(200),
             UserPuts(201, TestText.AFTER_ADD_FAILURE)>>
      [] func = "ExpectThenAssert" ->
           <<EXPECT_TRUE(226, TestText.E_0_GT_1, FALSE),
             ASSERT_EQ(216, TestText.N1, TestText.N0, 1, 0),
             UserPuts(217, TestText.NEVER)>>
      [] func = "SucceedAfterExpect" ->
           <<EXPECT_TRUE(226, TestText.E_0_GT_1, FALSE),
             SUCCEED(190),
             ASSERT_EQ(227, TestText.N5, TestText.N5, 5, 5)>>
      [] func = "CustomMessage" ->
           <<BMT_EXPECT_COMMON(226, FALSE, MacroText.EXPECT_TRUE,
                               TestText.E_0_GT_1, user_fmt, user_args)>>
      [] func = "FlagKept" ->
           <<EXPECT_EQ(224, TestText.N1, TestText.N0, 1, 0),
             EXPECT_EQ(37, TestText.SUB_10_5, TestText.N5, 5, 5),
             SUCCEED(190),
             ADD_FAILURE(200),
             EXPECT_TRUE(226, TestText.E_0_GT_1, FALSE),
             ASSERT_EQ(227, TestText.N5, TestText.N5, 5, 5)>>
      [] func = "PassesFirstRunOnly" ->
           <<ASSERT_EQ(216, RerunTestText.RUNS, TestText.N1, runs, 1),
             SUCCEED(190)>>
      [] func = "FailsFirstRunOnly" ->
           <<ASSERT_EQ(216, RerunTestText.RUNS, RerunTestText.N2, runs, 2),
             SUCCEED(190)>>
      [] func = "ExpectsFirstRun" ->
           <<EXPECT_EQ(224, RerunTestText.RUNS, TestText.N1, runs, 1)>>
      [] func = "LongValue" ->
           <<BMT_EXPECT_COMMON(226, FALSE, MacroText.EXPECT_EQ,
                               LongTestText.BIG \o MacroText.EQ
                                   \o TestText.N0,
                               MacroText.EXPECTED_ACTUAL,
                               <<user_args[1], LongArg(0)>>),
             BMT_EXPECT_COMMON(TenDigitLine, FALSE, MacroText.EXPECT_EQ,
                               LongTestText.BIG \o MacroText.EQ
                                   \o TestText.N0,
                               MacroText.EXPECTED_ACTUAL,
                               <<user_args[1], LongArg(0)>>)>>
      [] func = "LongExpression" ->
           <<EXPECT_TRUE(226, user_expr, FALSE),
             EXPECT_NOT_NULL(227, user_expr, FALSE)>>
      [] func = "StringEq" ->
           <<EXPECT_STREQ(236, StringTestText.S1, StringTestText.S2,
                          user_args[1], user_args[2]),
             EXPECT_STRNE(237, StringTestText.S1, StringTestText.S2,
                          user_args[1], user_args[2]),
             ASSERT_STREQ(238, StringTestText.S1, StringTestText.S2,
                          user_args[1], user_args[2])>>
      [] func = "StringNe" ->
           <<EXPECT_STRNEQ(242, StringTestText.S1, StringTestText.S2,
                           TestText.N1, user_args[1], user_args[2], 1),
             ASSERT_STRNE(243, StringTestText.S1, StringTestText.S2,
                          user_args[1], user_args[2]),
             ASSERT_STRNEQ(244, StringTestText.S1, StringTestText.S2,
                           TestText.N1, user_args[1], user_args[2], 1)>>

\* A name of n characters, no two neighbours alike.
NameOfLen(n) == [k \in 1..n |-> DigitChar[(k % 10) + 1]]

LongName == NameOfLen(LongNameLen)

\* The TEST(suite, name) declarations whose constructors may run at load.
TestDecls ==
    { [suite_name |-> TestText.BasicMath, test_name |-> TestText.Subtraction,
       func |-> "Subtraction"],
      [suite_name |-> TestText.FrameworkDemo,
       test_name |-> TestText.IntentionallyFailingAssert,
       func |-> "IntentionallyFailingAssert"],
      [suite_name |-> TestText.FrameworkDemo,
       test_name |-> TestText.IntentionallyFailingExpect,
       func |-> "IntentionallyFailingExpect"],
      [suite_name |-> TestText.EdgeCasesAndBugs,
       test_name |-> TestText.AddFailureThenPuts,
       func |-> "AddFailureThenPuts"],
      [suite_name |-> TestText.FrameworkDemo,
       test_name |-> TestText.ExpectThenAssert, func |-> "ExpectThenAssert"],
      [suite_name |-> TestText.FrameworkDemo,
       test_name |-> TestText.SucceedAfterExpect,
       func |-> "SucceedAfterExpect"],
      [suite_name |-> LongName, test_name |-> LongName, func |-> "NullPointer"] }

\* A static bmt_test_case_t before any registration writes it.
ZeroCase ==
    [suite_name |-> <<>>, test_name |-> <<>>, func |-> "NULL",
     last_run_passed |-> FALSE, duration_ms |-> U32Zero]

\* Values bmt_platform_get_msec_ticks may return.
TickValues == {<<0, 5>>, <<Limb - 1, Limb - 16>>}

\* One event of the run: ev is "invoke" (the test function is called),
\* "stmt" (statement pos of its body executes), "longjmp", "return" (the
\* function returns) or "write" (the runner writes the result fields).
Event(ev, idx, pos, func) ==
    [ev |-> ev, idx |-> idx, ip |-> pos, func |-> func,
     run |-> Len(io_init_calls)]

Init ==
    /\ g_bmt_test_cases = [k \in 0..(BMT_MAX_TEST_CASES - 1) |-> ZeroCase]
    /\ g_bmt_test_count = 0
    /\ g_bmt_assert_jmp_buf = -1
    /\ g_bmt_current_test_failed_expect = FALSE
    /\ pc = "load"
    /\ i = 0
    /\ ip = 0
    /\ current_test_passed_assert = TRUE
    /\ start_ticks = U32Zero
    /\ end_ticks = U32Zero
    /\ tests_passed = 0
    /\ tests_failed = 0
    /\ total_duration_ms = U32Zero
    /\ ret = -1
    /\ exit_status = -1
    /\ operand_evals = <<>>
    /\ out = <<>>
    /\ io_init_calls = <<>>
    /\ long_bits \in {32, 64}
    /\ user_fmt = <<>>
    /\ user_args = <<>>
    /\ user_expr = <<>>
    /\ register_calls = <<>>
    /\ trace = <<>>

(***************************************************************************)
(* bmt_register_test.                                                      *)
(***************************************************************************)
\* Mutation: size characters are copied, leaving no room for the '\0'.
StoredName_FillsField(src, size) ==
    SubSeq(src, 1, IF Len(src) < size THEN Len(src) ELSE size)

\* strncpy(dst, src, size - 1); dst[size - 1] = '\0'.
StoredName(src, size) ==
    SubSeq(src, 1, IF Len(src) < size - 1 THEN Len(src) ELSE size - 1)

\* Mutation: <= in place of <, one registration too many is accepted.
HasRoom_AllowsOverflow(count) == count <= BMT_MAX_TEST_CASES

\* Mutation: the last slot of the array is never used.
HasRoom_OffByOne(count) == count < BMT_MAX_TEST_CASES - 1

\* if (g_bmt_test_count < BMT_MAX_TEST_CASES)
HasRoom(count) == count < BMT_MAX_TEST_CASES

\* Mutation: every registration writes the first slot of the array.
Slot_AlwaysFirst(count) == 0

\* g_bmt_test_cases[g_bmt_test_count]: the slot a registration writes.
Slot(count) == count

bmt_register_test(suite_name, test_name, func) ==
    /\ pc = "load"
    /\ Len(register_calls) < MaxRegisterCalls
    /\ register_calls' =
           Append(register_calls,
                  [suite_name |-> suite_name, test_name |-> test_name,
                   func |-> func])
    /\ IF HasRoom(g_bmt_test_count)
       THEN /\ g_bmt_test_cases' =
                   [g_bmt_test_cases EXCEPT ![Slot(g_bmt_test_count)] =
                       [suite_name |->
                            StoredName(suite_name, BMT_MAX_SUITE_NAME_LEN),
                        test_name |->
                            StoredName(test_name, BMT_MAX_TEST_NAME_LEN),
                        func |-> func,
                        last_run_passed |-> FALSE,
                        duration_ms |-> U32Zero]]
            /\ g_bmt_test_count' = g_bmt_test_count + 1
            /\ out' = out
       ELSE /\ out' = Append(out, Puts(Lit.ERR_MAX))
            /\ UNCHANGED registry
    /\ UNCHANGED <<g_bmt_assert_jmp_buf, g_bmt_current_test_failed_expect, pc,
                   run_locals, io_init_calls, environment,
                   exit_status, operand_evals, trace>>

\* A constructor generated by TEST(suite, name) runs.
RegisterTest ==
    \E d \in TestDecls : bmt_register_test(d.suite_name, d.test_name, d.func)

(***************************************************************************)
(* bmt_run_all_tests.                                                      *)
(***************************************************************************)
\* puts(suite_name); putchar('.'); puts(test_name)
FullName(tc) == <<Puts(tc.suite_name), Putchar("."), Puts(tc.test_name)>>

\* bmt_itoa of an int, then puts.
PutsInt(n) == Puts(bmt_itoa(IntToLong(n)))

\* The statement the running test body is about to execute.
CurrentBody == TestBody(g_bmt_test_cases[i].func)

CurrentStmt == CurrentBody[ip]

InBody == pc = "body" /\ ip <= Len(CurrentBody)

ReportOf(s) ==
    bmt_report_failure(MacroText.FILE, s.line, s.kind, s.expr, s.has_msg,
                       s.fmt, s.args)

\* An event of the test the loop is running.
Ev(ev, pos) == Event(ev, i, pos, g_bmt_test_cases[i].func)

\* What executing check s adds to the history of operand evaluations: the
\* test, the statement, and how often each operand was evaluated.
OperandEvals(s) ==
    [idx |-> i, ip |-> ip, run |-> Len(io_init_calls), evals |-> s.evals]

\* Reads of bmt_platform_get_msec_ticks made so far: one when a test is
\* invoked (start_ticks) and one when its result is written (end_ticks).
TickReads(tr) ==
    Cardinality({k \in 1..Len(tr) : tr[k].ev \in {"invoke", "write"}})

\* Mutation: bmt_platform_io_init is called after the header is printed.
IoInitCall_AfterHeader(o, tr) ==
    [emitted |-> Len(o) + 3, tick_reads |-> TickReads(tr)]

\* The point at which bmt_platform_io_init() is called: the output calls
\* made and the tick reads made before it.
IoInitCall(o, tr) == [emitted |-> Len(o), tick_reads |-> TickReads(tr)]

\* A wrong local: the counter keeps the value the last run left.
CounterAtEntry_KeepsPrevious(previous) == previous

\* int tests_passed = 0; int tests_failed = 0;
CounterAtEntry(previous) == 0

\* Entry of bmt_run_all_tests: platform init, header, locals.
RunEnter ==
    /\ io_init_calls' = Append(io_init_calls, IoInitCall(out, trace))
    /\ out' = out \o <<Puts(Lit.RUNNING), PutsInt(g_bmt_test_count),
                       Puts(Lit.TESTS_DOT)>>
    /\ tests_passed' = CounterAtEntry(tests_passed)
    /\ tests_failed' = CounterAtEntry(tests_failed)
    /\ total_duration_ms' = U32Zero
    /\ i' = 0
    /\ pc' = "loop"
    /\ UNCHANGED <<registry, g_bmt_assert_jmp_buf,
                   g_bmt_current_test_failed_expect, ip,
                   current_test_passed_assert, start_ticks, end_ticks, ret,
                   environment,
                   exit_status, operand_evals, register_calls, trace>>

\* main calls RUN_ALL_TESTS() when the image has loaded.
RunStart == pc = "load" /\ RunEnter

\* Calls of bmt_run_all_tests the program makes at most.
MaxRuns == 2

\* The program calls bmt_run_all_tests again after it has returned.
RunAgain ==
    /\ pc = "returned"
    /\ Len(io_init_calls) < MaxRuns
    /\ RunEnter

\* Mutation: the flag is not reset between tests.
ResetFlag_Keeps(flag) == flag

\* g_bmt_current_test_failed_expect = false at the top of an iteration.
ResetFlag(flag) == FALSE

\* Mutation: the buffer is filled by the first iteration only.
Setjmp_OnlyFirst(buf, idx) == IF buf >= 0 THEN buf ELSE idx

\* setjmp(g_bmt_assert_jmp_buf): the buffer now holds iteration idx.
Setjmp(buf, idx) == idx

\* Mutation: the iteration announces nothing.
RunLine_Silent(tc) == <<>>

\* puts("[ RUN      ] "), the full name, puts of the line end.
RunLine(tc) == <<Puts(Lit.RUN)>> \o FullName(tc) \o <<Puts(Lit.CRLF)>>

\* Top of one loop iteration, up to the call of the test function; ticks
\* are the values bmt_platform_get_msec_ticks may return.
TestBeginWith(ticks) ==
    /\ pc = "loop"
    /\ i < g_bmt_test_count
    /\ out' = out \o RunLine(g_bmt_test_cases[i])
    /\ g_bmt_current_test_failed_expect' =
           ResetFlag(g_bmt_current_test_failed_expect)
    /\ current_test_passed_assert' = TRUE
    /\ start_ticks' \in ticks
    /\ g_bmt_assert_jmp_buf' = Setjmp(g_bmt_assert_jmp_buf, i)
    /\ ip' = 1
    /\ pc' = "body"
    /\ trace' = Append(trace, Ev("invoke", 0))
    /\ UNCHANGED <<registry, i, end_ticks, tests_passed, tests_failed,
                   total_duration_ms, ret, io_init_calls, environment,
                   exit_status, operand_evals,
                   register_calls>>

TestBegin == TestBeginWith(TickValues)

\* Mutation: the jump lands past the rest of the iteration.
bmt_terminate_current_test_SkipsIteration ==
    /\ g_bmt_assert_jmp_buf >= 0
    /\ i' = g_bmt_assert_jmp_buf + 1
    /\ current_test_passed_assert' = FALSE
    /\ pc' = "loop"

\* Mutation: the jump leaves bmt_run_all_tests altogether.
bmt_terminate_current_test_LeavesRun ==
    /\ g_bmt_assert_jmp_buf >= 0
    /\ i' = g_bmt_assert_jmp_buf
    /\ current_test_passed_assert' = FALSE
    /\ pc' = "returned"

\* Mutation: the else branch of the setjmp test leaves
\* current_test_passed_assert true.
bmt_terminate_current_test_KeepsPassed ==
    /\ g_bmt_assert_jmp_buf >= 0
    /\ i' = g_bmt_assert_jmp_buf
    /\ current_test_passed_assert' = current_test_passed_assert
    /\ pc' = "after"

\* bmt_terminate_current_test(): longjmp(g_bmt_assert_jmp_buf, 1) resumes in
\* the iteration held by the buffer, in the else branch of the setjmp test.
bmt_terminate_current_test ==
    /\ g_bmt_assert_jmp_buf >= 0
    /\ i' = g_bmt_assert_jmp_buf
    /\ current_test_passed_assert' = FALSE
    /\ pc' = "after"

\* BMT_ASSERT_COMMON: report and terminate when the condition is false.
AssertStep ==
    /\ InBody
    /\ CurrentStmt.op = "ASSERT"
    /\ IF CurrentStmt.cond
       THEN /\ ip' = ip + 1
            /\ trace' = Append(trace, Ev("stmt", ip))
            /\ UNCHANGED <<out, pc, i, current_test_passed_assert>>
       ELSE /\ \E r \in ReportOf(CurrentStmt) : out' = out \o r
            /\ bmt_terminate_current_test
            /\ trace' = trace \o <<Ev("stmt", ip), Ev("longjmp", ip)>>
            /\ ip' = ip
    /\ operand_evals' = Append(operand_evals, OperandEvals(CurrentStmt))
    /\ UNCHANGED <<registry, g_bmt_assert_jmp_buf,
                   g_bmt_current_test_failed_expect, start_ticks, end_ticks,
                   tests_passed, tests_failed, total_duration_ms, ret,
                   io_init_calls, environment,
                   exit_status, register_calls>>

\* A wrong flag: the check stores its own outcome.
FlagAfterExpect_StoresOutcome(cond, flag) == ~cond

\* g_bmt_current_test_failed_expect = true inside if (!(condition)).
FlagAfterExpect(cond, flag) == IF cond THEN flag ELSE TRUE

\* BMT_EXPECT_COMMON: report and set the flag when the condition is false.
ExpectStep ==
    /\ InBody
    /\ CurrentStmt.op = "EXPECT"
    /\ IF CurrentStmt.cond
       THEN UNCHANGED out
       ELSE \E r \in ReportOf(CurrentStmt) : out' = out \o r
    /\ g_bmt_current_test_failed_expect' =
           FlagAfterExpect(CurrentStmt.cond, g_bmt_current_test_failed_expect)
    /\ ip' = ip + 1
    /\ trace' = Append(trace, Ev("stmt", ip))
    /\ operand_evals' = Append(operand_evals, OperandEvals(CurrentStmt))
    /\ UNCHANGED <<registry, g_bmt_assert_jmp_buf, pc, i,
                   current_test_passed_assert, start_ticks, end_ticks,
                   tests_passed, tests_failed, total_duration_ms, ret,
                   io_init_calls, environment,
                   exit_status, register_calls>>

\* ADD_FAILURE(): bmt_report_failure and nothing else.
AddFailureStep ==
    /\ InBody
    /\ CurrentStmt.op = "ADD_FAILURE"
    /\ \E r \in ReportOf(CurrentStmt) : out' = out \o r
    /\ ip' = ip + 1
    /\ trace' = Append(trace, Ev("stmt", ip))
    /\ UNCHANGED <<registry, g_bmt_assert_jmp_buf,
                   g_bmt_current_test_failed_expect, pc, i,
                   current_test_passed_assert, start_ticks, end_ticks,
                   tests_passed, tests_failed, total_duration_ms, ret,
                   io_init_calls, environment,
                   exit_status, operand_evals, register_calls>>

\* Mutation: SUCCEED() clears the non-fatal-failure flag.
SucceedStep_ClearsFlag ==
    /\ InBody
    /\ CurrentStmt.op = "SUCCEED"
    /\ out' = out \o <<Puts(MacroText.FILE), Putchar(":"),
                       Puts(MacroText.SUCCEED)>>
    /\ ip' = ip + 1
    /\ trace' = Append(trace, Ev("stmt", ip))
    /\ g_bmt_current_test_failed_expect' = FALSE
    /\ UNCHANGED <<registry, g_bmt_assert_jmp_buf, pc, i,
                   current_test_passed_assert, start_ticks, end_ticks,
                   tests_passed, tests_failed, total_duration_ms, ret,
                   io_init_calls, environment,
                   exit_status, operand_evals, register_calls>>

\* SUCCEED(): puts(__FILE__); putchar(':'); puts(": SUCCEED()\r\n").
SucceedStep ==
    /\ InBody
    /\ CurrentStmt.op = "SUCCEED"
    /\ out' = out \o <<Puts(MacroText.FILE), Putchar(":"),
                       Puts(MacroText.SUCCEED)>>
    /\ ip' = ip + 1
    /\ trace' = Append(trace, Ev("stmt", ip))
    /\ UNCHANGED <<registry, g_bmt_assert_jmp_buf,
                   g_bmt_current_test_failed_expect, pc, i,
                   current_test_passed_assert, start_ticks, end_ticks,
                   tests_passed, tests_failed, total_duration_ms, ret,
                   io_init_calls, environment,
                   exit_status, operand_evals, register_calls>>

\* A bmt_platform_puts call of the test body.
UserPutsStep ==
    /\ InBody
    /\ CurrentStmt.op = "PUTS"
    /\ out' = out \o <<Puts(CurrentStmt.text)>>
    /\ ip' = ip + 1
    /\ trace' = Append(trace, Ev("stmt", ip))
    /\ UNCHANGED <<registry, g_bmt_assert_jmp_buf,
                   g_bmt_current_test_failed_expect, pc, i,
                   current_test_passed_assert, start_ticks, end_ticks,
                   tests_passed, tests_failed, total_duration_ms, ret,
                   io_init_calls, environment,
                   exit_status, operand_evals, register_calls>>

\* The test function returns to the setjmp branch that called it.
BodyReturn ==
    /\ pc = "body"
    /\ ip > Len(CurrentBody)
    /\ pc' = "after"
    /\ trace' = Append(trace, Ev("return", ip))
    /\ UNCHANGED <<registry, g_bmt_assert_jmp_buf,
                   g_bmt_current_test_failed_expect, i, ip,
                   current_test_passed_assert, start_ticks, end_ticks,
                   tests_passed, tests_failed, total_duration_ms, ret, out,
                   io_init_calls, environment,
                   exit_status, operand_evals, register_calls>>

\* Mutation: the outcome ignores the non-fatal-failure flag.
LastRunPassed_IgnoresExpect(passed_assert, failed_expect) == passed_assert

\* Mutation: || in place of &&.
LastRunPassed_Or(passed_assert, failed_expect) ==
    passed_assert \/ ~failed_expect

\* last_run_passed = current_test_passed_assert
\*                   && !g_bmt_current_test_failed_expect
LastRunPassed(passed_assert, failed_expect) ==
    passed_assert /\ ~failed_expect

\* A wrong counter: every test counts as failed.
TestsFailedAfter_CountsAll(passed, failed) == failed + 1

\* tests_failed++ in the else branch of the verdict.
TestsFailedAfter(passed, failed) == IF passed THEN failed ELSE failed + 1

\* Rest of the iteration: end tick, duration, outcome, result line, counters.
TestEndWith(ticks) ==
    /\ pc = "after"
    /\ \E t \in ticks :
         LET d      == Duration(start_ticks, t)
             passed == LastRunPassed(current_test_passed_assert,
                                     g_bmt_current_test_failed_expect)
             tc     == g_bmt_test_cases[i]
         IN  /\ end_ticks' = t
             /\ g_bmt_test_cases' =
                    [g_bmt_test_cases EXCEPT ![i].duration_ms = d,
                                             ![i].last_run_passed = passed]
             /\ total_duration_ms' = U32Add(total_duration_ms, d)
             /\ tests_passed' = IF passed THEN tests_passed + 1
                                ELSE tests_passed
             /\ tests_failed' = TestsFailedAfter(passed, tests_failed)
             /\ \E txt \in bmt_itoa_outcomes(U32ToLong(d, long_bits),
                                             long_bits) :
                  out' = out
                         \o <<Puts(IF passed THEN Lit.OK ELSE Lit.FAILED)>>
                         \o FullName(tc)
                         \o <<Puts(Lit.OPEN_DUR), Puts(txt), Puts(Lit.MS)>>
    /\ i' = i + 1
    /\ pc' = "loop"
    /\ trace' = Append(trace, Ev("write", 0))
    /\ UNCHANGED <<g_bmt_test_count, g_bmt_assert_jmp_buf,
                   g_bmt_current_test_failed_expect, ip,
                   current_test_passed_assert, start_ticks, ret,
                   io_init_calls, environment,
                   exit_status, operand_evals, register_calls>>

TestEnd == TestEndWith(TickValues)

\* Mutation: the second loop lists the descriptors that passed.
RECURSIVE FailedList_ListsPassed(_, _, _)
FailedList_ListsPassed(cases, count, k) ==
    IF k >= count
    THEN <<>>
    ELSE (IF cases[k].last_run_passed
          THEN <<Puts(Lit.FAILED)>> \o FullName(cases[k])
                   \o <<Puts(Lit.CRLF)>>
          ELSE <<>>)
         \o FailedList_ListsPassed(cases, count, k + 1)

\* The second loop: one line per descriptor with last_run_passed false.
RECURSIVE FailedList(_, _, _)
FailedList(cases, count, k) ==
    IF k >= count
    THEN <<>>
    ELSE (IF ~cases[k].last_run_passed
          THEN <<Puts(Lit.FAILED)>> \o FullName(cases[k])
                   \o <<Puts(Lit.CRLF)>>
          ELSE <<>>)
         \o FailedList(cases, count, k + 1)

\* Mutation: the block is written whatever the count of failed tests.
FailedBlock_Always(cases, count, failed) ==
    <<Puts(Lit.FAILED), PutsInt(failed), Puts(Lit.LISTED)>>
        \o FailedList(cases, count, 0)

\* if (tests_failed > 0) { header and list }
FailedBlock(cases, count, failed) ==
    IF failed > 0
    THEN <<Puts(Lit.FAILED), PutsInt(failed), Puts(Lit.LISTED)>>
             \o FailedList(cases, count, 0)
    ELSE <<>>

\* return tests_failed
ReturnValue(passed, failed) == failed

\* A wrong closing line: the singular also when no test failed.
ClosingWord_SingularForZero(failed) ==
    IF failed <= 1 THEN Lit.FAILED_TEST ELSE Lit.FAILED_TESTS

\* if (tests_failed == 1) " FAILED TEST\r\n" else " FAILED TESTS\r\n".
ClosingWord(failed) ==
    IF failed = 1 THEN Lit.FAILED_TEST ELSE Lit.FAILED_TESTS

\* After the loop: summary and return.
RunFinish ==
    /\ pc = "loop"
    /\ i >= g_bmt_test_count
    /\ \E txt \in bmt_itoa_outcomes(U32ToLong(total_duration_ms, long_bits),
                                    long_bits) :
         out' = out
                \o <<Puts(Lit.BAR), PutsInt(g_bmt_test_count),
                     Puts(Lit.TESTS_RAN), Puts(txt), Puts(Lit.MS_TOTAL),
                     Puts(Lit.PASSED), PutsInt(tests_passed),
                     Puts(Lit.TESTS_DOT)>>
                \o FailedBlock(g_bmt_test_cases, g_bmt_test_count,
                               tests_failed)
                \o <<Puts(Lit.CRLF), PutsInt(tests_failed),
                     Puts(ClosingWord(tests_failed))>>
    /\ ret' = ReturnValue(tests_passed, tests_failed)
    /\ pc' = "returned"
    /\ UNCHANGED <<registry, g_bmt_assert_jmp_buf,
                   g_bmt_current_test_failed_expect, i, ip,
                   current_test_passed_assert, start_ticks, end_ticks,
                   tests_passed, tests_failed, total_duration_ms,
                   io_init_calls, environment,
                   exit_status, operand_evals, register_calls, trace>>

Next ==
    \/ RegisterTest
    \/ RunStart
    \/ TestBegin
    \/ AssertStep
    \/ ExpectStep
    \/ AddFailureStep
    \/ SucceedStep
    \/ UserPutsStep
    \/ BodyReturn
    \/ TestEnd
    \/ RunFinish

Spec == Init /\ [][Next]_vars

\* The program is one thread that keeps executing: once main is entered,
\* the run takes its next step.
RunStep ==
    \/ RunStart
    \/ TestBegin
    \/ AssertStep
    \/ ExpectStep
    \/ AddFailureStep
    \/ SucceedStep
    \/ UserPutsStep
    \/ BodyReturn
    \/ TestEnd
    \/ RunFinish

FairSpec == Spec /\ WF_vars(RunStep)

(***************************************************************************)
(* main of examples/main_tests.c: the run, then the closing message and    *)
(* the exit status.                                                        *)
(***************************************************************************)
MainText ==
    [ ALL_TESTS_PASSED |->
          <<"A", "L", "L", " ", "T", "E", "S", "T", "S", " ", "P", "A", "S",
            "S", "E", "D", "\r", "\n">>,
      TESTS_FAILED |->
          <<" ", "T", "E", "S", "T", "S", " ", "F", "A", "I", "L", "E", "D",
            "\r", "\n">> ]

\* char buf[30]; bmt_platform_puts(buf): buf is never written, so the call
\* prints nothing, prints what the stack held, or has no defined result.
PutsUninitialized == {Puts(<<>>), Puts(<<"x">>), UndefinedRead}

\* The value main returns: return 0.
ExitStatus(run_result) == 0

\* main after RUN_ALL_TESTS() returned: the closing message, return.
MainReturn ==
    /\ pc = "returned"
    /\ IF ret = 0
       THEN out' = Append(out, Puts(MainText.ALL_TESTS_PASSED))
       ELSE \E b \in PutsUninitialized :
                out' = out \o <<b, Puts(MainText.TESTS_FAILED)>>
    /\ exit_status' = ExitStatus(ret)
    /\ pc' = "exited"
    /\ UNCHANGED <<registry, g_bmt_assert_jmp_buf,
                   g_bmt_current_test_failed_expect, run_locals,
                   operand_evals, io_init_calls, environment, register_calls,
                   trace>>

MainNext ==
    \/ Next
    \/ MainReturn

MainSpec == Init /\ [][MainNext]_vars

(***************************************************************************)
(* The duration computation over boundary tick values: one registered      *)
(* test (BasicMath.Subtraction), the run entered, and a tick source that   *)
(* may return any value of WideTicks.                                      *)
(***************************************************************************)
WideTicks ==
    { <<0, 0>>, <<0, 1>>, <<0, 5>>, <<0, 21>>, <<0, Limb - 1>>, <<1, 0>>,
      <<Limb \div 2 - 1, Limb - 1>>, <<Limb \div 2, 0>>,
      <<Limb - 2, Limb - 1>>, <<Limb - 1, 0>>, <<Limb - 1, Limb - 16>>,
      <<Limb - 1, Limb - 1>> }

SubtractionDecl ==
    [suite_name |-> TestText.BasicMath, test_name |-> TestText.Subtraction,
     func |-> "Subtraction"]

TickInit ==
    /\ g_bmt_test_cases =
           [k \in 0..(BMT_MAX_TEST_CASES - 1) |->
               IF k = 0
               THEN [suite_name |-> TestText.BasicMath,
                     test_name |-> TestText.Subtraction,
                     func |-> "Subtraction", last_run_passed |-> FALSE,
                     duration_ms |-> U32Zero]
               ELSE ZeroCase]
    /\ g_bmt_test_count = 1
    /\ g_bmt_assert_jmp_buf = -1
    /\ g_bmt_current_test_failed_expect = FALSE
    /\ pc = "loop"
    /\ i = 0
    /\ ip = 0
    /\ current_test_passed_assert = TRUE
    /\ start_ticks = U32Zero
    /\ end_ticks = U32Zero
    /\ tests_passed = 0
    /\ tests_failed = 0
    /\ total_duration_ms = U32Zero
    /\ ret = -1
    /\ exit_status = -1
    /\ operand_evals = <<>>
    /\ out = <<Puts(Lit.RUNNING), PutsInt(1), Puts(Lit.TESTS_DOT)>>
    /\ io_init_calls = <<IoInitCall(<<>>, <<>>)>>
    /\ long_bits \in {32, 64}
    /\ user_fmt = <<>>
    /\ user_args = <<>>
    /\ user_expr = <<>>
    /\ register_calls = <<SubtractionDecl>>
    /\ trace = <<>>

TestBeginWide == TestBeginWith(WideTicks)

TestEndWide == TestEndWith(WideTicks)

TickNext ==
    \/ TestBeginWide
    \/ AssertStep
    \/ ExpectStep
    \/ BodyReturn
    \/ TestEndWide
    \/ RunFinish

TickSpec == TickInit /\ [][TickNext]_vars

(***************************************************************************)
(* Registration under names of boundary lengths: the image loads and its   *)
(* constructors call bmt_register_test.                                    *)
(***************************************************************************)
SuiteNameLens ==
    {0, BMT_MAX_SUITE_NAME_LEN - 1, BMT_MAX_SUITE_NAME_LEN}

TestNameLens == {1, BMT_MAX_TEST_NAME_LEN - 2, LongNameLen}

RegisterNamed ==
    \E sl \in SuiteNameLens, tl \in TestNameLens :
        bmt_register_test(NameOfLen(sl), NameOfLen(tl), "NullPointer")

RegisterNext == RegisterNamed

RegisterSpec == Init /\ [][RegisterNext]_vars

(***************************************************************************)
(* The message formatter over message templates: one registered test       *)
(* (FrameworkDemo.CustomMessage) whose failing EXPECT passes a template    *)
(* and arguments of its own, the run entered.                              *)
(***************************************************************************)
\* Longest message template and longest argument list tried.
MaxFmtLen == 4

MaxArgs == 2

FmtChars == {"%", "s", "l", "d", "x"}

Templates == UNION {[1..n -> FmtChars] : n \in 0..MaxFmtLen}

ArgValues == {LongArg(-42), StrArg(TestText.HI), NullStrArg}

ArgLists == UNION {[1..n -> ArgValues] : n \in 0..MaxArgs}

CustomMessageDecl ==
    [suite_name |-> TestText.FrameworkDemo,
     test_name |-> TestText.CustomMessage, func |-> "CustomMessage"]

\* The single pair of ticks of this run.
OneTick == {<<0, 5>>}

ReportInit ==
    /\ g_bmt_test_cases =
           [k \in 0..(BMT_MAX_TEST_CASES - 1) |->
               IF k = 0
               THEN [suite_name |-> TestText.FrameworkDemo,
                     test_name |-> TestText.CustomMessage,
                     func |-> "CustomMessage", last_run_passed |-> FALSE,
                     duration_ms |-> U32Zero]
               ELSE ZeroCase]
    /\ g_bmt_test_count = 1
    /\ g_bmt_assert_jmp_buf = -1
    /\ g_bmt_current_test_failed_expect = FALSE
    /\ pc = "loop"
    /\ i = 0
    /\ ip = 0
    /\ current_test_passed_assert = TRUE
    /\ start_ticks = U32Zero
    /\ end_ticks = U32Zero
    /\ tests_passed = 0
    /\ tests_failed = 0
    /\ total_duration_ms = U32Zero
    /\ ret = -1
    /\ exit_status = -1
    /\ operand_evals = <<>>
    /\ out = <<Puts(Lit.RUNNING), PutsInt(1), Puts(Lit.TESTS_DOT)>>
    /\ io_init_calls = <<IoInitCall(<<>>, <<>>)>>
    /\ long_bits \in {32, 64}
    /\ user_fmt \in Templates
    /\ user_args \in ArgLists
    /\ user_expr = <<>>
    /\ register_calls = <<CustomMessageDecl>>
    /\ trace = <<>>

TestBeginOnce == TestBeginWith(OneTick)

TestEndOnce == TestEndWith(OneTick)

ReportNext ==
    \/ TestBeginOnce
    \/ ExpectStep
    \/ BodyReturn
    \/ TestEndOnce
    \/ RunFinish

ReportSpec == ReportInit /\ [][ReportNext]_vars

(***************************************************************************)
(* The string checks over pairs of string pointers: two registered tests   *)
(* (StringChecks.StringEq, StringChecks.StringNe) that check the pointers  *)
(* s1 and s2 of the test program, the run entered.                         *)
(***************************************************************************)
StringValues ==
    {NullStrArg, StrArg(<<>>), StrArg(StringTestText.H),
     StrArg(TestText.HI), StrArg(StringTestText.HO)}

StringPairs == {<<s1, s2>> : s1 \in StringValues, s2 \in StringValues}

StringDecls ==
    <<[suite_name |-> StringTestText.StringChecks,
       test_name |-> StringTestText.StringEq, func |-> "StringEq"],
      [suite_name |-> StringTestText.StringChecks,
       test_name |-> StringTestText.StringNe, func |-> "StringNe"]>>

StringInit ==
    /\ g_bmt_test_cases =
           [k \in 0..(BMT_MAX_TEST_CASES - 1) |->
               IF k < 2
               THEN [suite_name |-> StringDecls[k + 1].suite_name,
                     test_name |-> StringDecls[k + 1].test_name,
                     func |-> StringDecls[k + 1].func,
                     last_run_passed |-> FALSE, duration_ms |-> U32Zero]
               ELSE ZeroCase]
    /\ g_bmt_test_count = 2
    /\ g_bmt_assert_jmp_buf = -1
    /\ g_bmt_current_test_failed_expect = FALSE
    /\ pc = "loop"
    /\ i = 0
    /\ ip = 0
    /\ current_test_passed_assert = TRUE
    /\ start_ticks = U32Zero
    /\ end_ticks = U32Zero
    /\ tests_passed = 0
    /\ tests_failed = 0
    /\ total_duration_ms = U32Zero
    /\ ret = -1
    /\ exit_status = -1
    /\ operand_evals = <<>>
    /\ out = <<Puts(Lit.RUNNING), PutsInt(2), Puts(Lit.TESTS_DOT)>>
    /\ io_init_calls = <<IoInitCall(<<>>, <<>>)>>
    /\ long_bits \in {32, 64}
    /\ user_fmt = <<>>
    /\ user_args \in StringPairs
    /\ user_expr = <<>>
    /\ register_calls = StringDecls
    /\ trace = <<>>

StringNext ==
    \/ TestBeginOnce
    \/ AssertStep
    \/ ExpectStep
    \/ BodyReturn
    \/ TestEndOnce
    \/ RunFinish

StringSpec == StringInit /\ [][StringNext]_vars

(***************************************************************************)
(* The "  kind(expr)" line over expressions of boundary lengths: one       *)
(* registered test (FrameworkDemo.LongExpression) whose two failing checks *)
(* have the expression text of the test program, the run entered.          *)
(***************************************************************************)
\* Longest expression text tried.
MaxExprLen == 300

\* Lengths around the room strncat leaves: "  EXPECT_TRUE(" takes 14 bytes
\* and "  EXPECT_NOT_NULL(" with " != NULL" takes 26.
ExprLens ==
    {0, ReportBufferSize - 30, ReportBufferSize - 29, ReportBufferSize - 28,
     ReportBufferSize - 18, ReportBufferSize - 17, ReportBufferSize - 16,
     MaxExprLen}

ExprInit ==
    /\ g_bmt_test_cases =
           [k \in 0..(BMT_MAX_TEST_CASES - 1) |->
               IF k = 0
               THEN [suite_name |-> TestText.FrameworkDemo,
                     test_name |-> ExprTestText.LongExpression,
                     func |-> "LongExpression", last_run_passed |-> FALSE,
                     duration_ms |-> U32Zero]
               ELSE ZeroCase]
    /\ g_bmt_test_count = 1
    /\ g_bmt_assert_jmp_buf = -1
    /\ g_bmt_current_test_failed_expect = FALSE
    /\ pc = "loop"
    /\ i = 0
    /\ ip = 0
    /\ current_test_passed_assert = TRUE
    /\ start_ticks = U32Zero
    /\ end_ticks = U32Zero
    /\ tests_passed = 0
    /\ tests_failed = 0
    /\ total_duration_ms = U32Zero
    /\ ret = -1
    /\ exit_status = -1
    /\ operand_evals = <<>>
    /\ out = <<Puts(Lit.RUNNING), PutsInt(1), Puts(Lit.TESTS_DOT)>>
    /\ io_init_calls = <<IoInitCall(<<>>, <<>>)>>
    /\ long_bits \in {32, 64}
    /\ user_fmt = <<>>
    /\ user_args = <<>>
    /\ user_expr \in {NameOfLen(n) : n \in ExprLens}
    /\ register_calls =
           <<[suite_name |-> TestText.FrameworkDemo,
              test_name |-> ExprTestText.LongExpression,
              func |-> "LongExpression"]>>
    /\ trace = <<>>

ExprNext ==
    \/ TestBeginOnce
    \/ ExpectStep
    \/ BodyReturn
    \/ TestEndOnce
    \/ RunFinish

ExprSpec == ExprInit /\ [][ExprNext]_vars

(***************************************************************************)
(* The non-fatal-failure flag over a body that goes on after a failed      *)
(* check: two registered tests, drawn from bodies with and without failed  *)
(* checks, the run entered.                                                *)
(***************************************************************************)
FlagDecls ==
    { [suite_name |-> TestText.FrameworkDemo,
       test_name |-> FlagTestText.FlagKept, func |-> "FlagKept"],
      [suite_name |-> TestText.BasicMath, test_name |-> TestText.Subtraction,
       func |-> "Subtraction"],
      [suite_name |-> TestText.FrameworkDemo,
       test_name |-> TestText.SucceedAfterExpect,
       func |-> "SucceedAfterExpect"],
      [suite_name |-> TestText.FrameworkDemo,
       test_name |-> TestText.ExpectThenAssert, func |-> "ExpectThenAssert"],
      [suite_name |-> TestText.EdgeCasesAndBugs,
       test_name |-> TestText.AddFailureThenPuts,
       func |-> "AddFailureThenPuts"] }

FlagInit ==
    /\ \E d \in [1..2 -> FlagDecls] :
          /\ g_bmt_test_cases =
                 [k \in 0..(BMT_MAX_TEST_CASES - 1) |->
                     IF k < 2
                     THEN [suite_name |-> d[k + 1].suite_name,
                           test_name |-> d[k + 1].test_name,
                           func |-> d[k + 1].func,
                           last_run_passed |-> FALSE,
                           duration_ms |-> U32Zero]
                     ELSE ZeroCase]
          /\ register_calls = d
    /\ g_bmt_test_count = 2
    /\ g_bmt_assert_jmp_buf = -1
    /\ g_bmt_current_test_failed_expect = FALSE
    /\ pc = "loop"
    /\ i = 0
    /\ ip = 0
    /\ current_test_passed_assert = TRUE
    /\ start_ticks = U32Zero
    /\ end_ticks = U32Zero
    /\ tests_passed = 0
    /\ tests_failed = 0
    /\ total_duration_ms = U32Zero
    /\ ret = -1
    /\ exit_status = -1
    /\ operand_evals = <<>>
    /\ out = <<Puts(Lit.RUNNING), PutsInt(2), Puts(Lit.TESTS_DOT)>>
    /\ io_init_calls = <<IoInitCall(<<>>, <<>>)>>
    /\ long_bits \in {32, 64}
    /\ user_fmt = <<>>
    /\ user_args = <<>>
    /\ user_expr = <<>>
    /\ trace = <<>>

FlagNext ==
    \/ TestBeginOnce
    \/ AssertStep
    \/ ExpectStep
    \/ AddFailureStep
    \/ SucceedStep
    \/ UserPutsStep
    \/ BodyReturn
    \/ TestEndOnce
    \/ RunFinish

FlagSpec == FlagInit /\ [][FlagNext]_vars

(***************************************************************************)
(* Runs repeated: two registered tests, drawn from bodies whose outcome    *)
(* changes from one run to the next and bodies whose outcome does not, the *)
(* first run entered; the program calls the run again after it returns.    *)
(***************************************************************************)
RerunDecls ==
    { [suite_name |-> RerunTestText.Rerun,
       test_name |-> RerunTestText.PassesFirstRunOnly,
       func |-> "PassesFirstRunOnly"],
      [suite_name |-> RerunTestText.Rerun,
       test_name |-> RerunTestText.FailsFirstRunOnly,
       func |-> "FailsFirstRunOnly"],
      [suite_name |-> RerunTestText.Rerun,
       test_name |-> RerunTestText.ExpectsFirstRun,
       func |-> "ExpectsFirstRun"],
      [suite_name |-> TestText.FrameworkDemo,
       test_name |-> TestText.ExpectThenAssert, func |-> "ExpectThenAssert"],
      [suite_name |-> TestText.BasicMath, test_name |-> TestText.Subtraction,
       func |-> "Subtraction"] }

\* Tick pairs read at the end of a test: the test took 0 ms or 7 ms.
RerunEndTicks == {<<0, 5>>, <<0, 12>>}

RerunInit ==
    /\ \E d \in [1..2 -> RerunDecls] :
          /\ g_bmt_test_cases =
                 [k \in 0..(BMT_MAX_TEST_CASES - 1) |->
                     IF k < 2
                     THEN [suite_name |-> d[k + 1].suite_name,
                           test_name |-> d[k + 1].test_name,
                           func |-> d[k + 1].func,
                           last_run_passed |-> FALSE,
                           duration_ms |-> U32Zero]
                     ELSE ZeroCase]
          /\ register_calls = d
    /\ g_bmt_test_count = 2
    /\ g_bmt_assert_jmp_buf = -1
    /\ g_bmt_current_test_failed_expect = FALSE
    /\ pc = "loop"
    /\ i = 0
    /\ ip = 0
    /\ current_test_passed_assert = TRUE
    /\ start_ticks = U32Zero
    /\ end_ticks = U32Zero
    /\ tests_passed = 0
    /\ tests_failed = 0
    /\ total_duration_ms = U32Zero
    /\ ret = -1
    /\ exit_status = -1
    /\ operand_evals = <<>>
    /\ out = <<Puts(Lit.RUNNING), PutsInt(2), Puts(Lit.TESTS_DOT)>>
    /\ io_init_calls = <<IoInitCall(<<>>, <<>>)>>
    /\ long_bits \in {32, 64}
    /\ user_fmt = <<>>
    /\ user_args = <<>>
    /\ user_expr = <<>>
    /\ trace = <<>>

RerunNext ==
    \/ TestBeginOnce
    \/ AssertStep
    \/ ExpectStep
    \/ SucceedStep
    \/ BodyReturn
    \/ TestEndWith(RerunEndTicks)
    \/ RunFinish
    \/ RunAgain

RerunSpec == RerunInit /\ [][RerunNext]_vars

(***************************************************************************)
(* The %ld conversion over the values of long: one registered test         *)
(* (FrameworkDemo.LongValue) whose failing checks show a long of the test  *)
(* program, the run entered.  The most negative long, whose conversion has *)
(* no defined result, is left to the runs over tick values.                *)
(***************************************************************************)
\* A long of 64 bits from its sign and four limbs.
Long64(neg, a, b, c, d) ==
    [type |-> "long", val |-> [neg |-> neg, mag |-> <<a, b, c, d>>],
     str |-> <<>>]

\* Values every long can hold: 0, 1, -1, -42, 999999999, +/-(2^31 - 1).
NarrowLongs ==
    { Long64(FALSE, 0, 0, 0, 0), Long64(FALSE, 0, 0, 0, 1),
      Long64(TRUE, 0, 0, 0, 1), Long64(TRUE, 0, 0, 0, 42),
      Long64(FALSE, 0, 0, 15258, 51711), Long64(FALSE, 0, 0, 32767, 65535),
      Long64(TRUE, 0, 0, 32767, 65535) }

\* Values only a long of 64 bits can hold: 2^31, -(2^31) - 1,
\* +/-(10^18 - 1), +/-(10^18), +/-(2^63 - 1).
WideLongs ==
    { Long64(FALSE, 0, 0, 32768, 0), Long64(TRUE, 0, 0, 32768, 1),
      Long64(FALSE, 3552, 46771, 42851, 65535),
      Long64(TRUE, 3552, 46771, 42851, 65535),
      Long64(FALSE, 3552, 46771, 42852, 0),
      Long64(TRUE, 3552, 46771, 42852, 0),
      Long64(FALSE, 32767, 65535, 65535, 65535),
      Long64(TRUE, 32767, 65535, 65535, 65535) }

LongInit ==
    /\ g_bmt_test_cases =
           [k \in 0..(BMT_MAX_TEST_CASES - 1) |->
               IF k = 0
               THEN [suite_name |-> TestText.FrameworkDemo,
                     test_name |-> LongTestText.LongValue,
                     func |-> "LongValue", last_run_passed |-> FALSE,
                     duration_ms |-> U32Zero]
               ELSE ZeroCase]
    /\ g_bmt_test_count = 1
    /\ g_bmt_assert_jmp_buf = -1
    /\ g_bmt_current_test_failed_expect = FALSE
    /\ pc = "loop"
    /\ i = 0
    /\ ip = 0
    /\ current_test_passed_assert = TRUE
    /\ start_ticks = U32Zero
    /\ end_ticks = U32Zero
    /\ tests_passed = 0
    /\ tests_failed = 0
    /\ total_duration_ms = U32Zero
    /\ ret = -1
    /\ exit_status = -1
    /\ operand_evals = <<>>
    /\ out = <<Puts(Lit.RUNNING), PutsInt(1), Puts(Lit.TESTS_DOT)>>
    /\ io_init_calls = <<IoInitCall(<<>>, <<>>)>>
    /\ long_bits \in {32, 64}
    /\ user_fmt = <<>>
    /\ \E v \in (IF long_bits = 64 THEN NarrowLongs \cup WideLongs
                  ELSE NarrowLongs) : user_args = <<v>>
    /\ user_expr = <<>>
    /\ register_calls =
           <<[suite_name |-> TestText.FrameworkDemo,
              test_name |-> LongTestText.LongValue, func |-> "LongValue"]>>
    /\ trace = <<>>

LongNext ==
    \/ TestBeginOnce
    \/ ExpectStep
    \/ BodyReturn
    \/ TestEndOnce
    \/ RunFinish

LongSpec == LongInit /\ [][LongNext]_vars

(***************************************************************************)
(* Vocabulary of the properties.                                           *)
(***************************************************************************)
Registered == 0..(g_bmt_test_count - 1)

\* Positions of the trace holding an event ev of test idx.
EventsOf(ev, idx) ==
    {k \in 1..Len(trace) : trace[k].ev = ev /\ trace[k].idx = idx}

\* Test idx took the fatal transfer.
Fatal(idx) == EventsOf("longjmp", idx) # {}

\* The runner has written the result fields of test idx.
Finished(idx) == EventsOf("write", idx) # {}

BodyOf(idx) == TestBody(g_bmt_test_cases[idx].func)

\* Statement pos of test idx has executed.
Executed(idx, pos) ==
    \E k \in EventsOf("stmt", idx) : trace[k].ip = pos

\* The tokens of the result line of a test with the given outcome.
ResultLine(tag, tc, k) ==
    /\ k + 3 <= Len(out)
    /\ out[k] = Puts(tag)
    /\ out[k + 1] = Puts(tc.suite_name)
    /\ out[k + 2] = Putchar(".")
    /\ out[k + 3] = Puts(tc.test_name)
    /\ k + 4 <= Len(out)
    /\ out[k + 4] = Puts(Lit.OPEN_DUR)

(***************************************************************************)
(* C1.  When a test body fails a fatal (ASSERT-class) check, no statement  *)
(* of that body after the failing check executes, the test is recorded as  *)
(* failed, and the runner still runs the next registered test.             *)
(***************************************************************************)
\* After the fatal transfer of test idx the only later event of that test
\* is the runner's write of its result, and that result is "failed".
FatalAbortsBody(idx) ==
    \A k \in EventsOf("longjmp", idx) :
        /\ \A m \in (k + 1)..Len(trace) :
               trace[m].idx = idx => trace[m].ev = "write"
        /\ \A pos \in (trace[k].ip + 1)..Len(BodyOf(idx)) :
               ~Executed(idx, pos)
        /\ Finished(idx) => ~g_bmt_test_cases[idx].last_run_passed

\* The runner is not stopped by the fatal transfer of test idx: it lands
\* where the rest of the iteration can run, the loop then reaches the next
\* registered test and can start it, and a run that has returned invoked it.
RunGoesOn(idx) ==
    /\ (pc = "after" /\ i = idx => ENABLED TestEnd)
    /\ (pc = "loop" /\ i = idx + 1 /\ i < g_bmt_test_count
            => ENABLED TestBegin)
    /\ (pc \in {"loop", "body", "after", "returned"} /\ i > idx
            => Finished(idx))
    /\ (pc = "returned" /\ idx + 1 < g_bmt_test_count
            => EventsOf("invoke", idx + 1) # {})

C1_FatalIsolation ==
    \A idx \in Registered :
        Fatal(idx) => FatalAbortsBody(idx) /\ RunGoesOn(idx)

\* A run has returned in which a test failed a fatal check that had a
\* statement after it, and the test registered after it was invoked.
C1_Witness ==
    /\ pc = "returned"
    /\ \E idx \in Registered :
           /\ Fatal(idx)
           /\ \E k \in EventsOf("longjmp", idx) :
                  trace[k].ip < Len(BodyOf(idx))
           /\ idx + 1 < g_bmt_test_count
           /\ EventsOf("invoke", idx + 1) # {}

(***************************************************************************)
(* C2.  When a non-fatal (EXPECT-class) check fails inside a test body,    *)
(* the remaining statements of that body still execute in order, and the   *)
(* test is recorded as failed even if every later check passes.            *)
(***************************************************************************)
FailsExpect(s) == s.op = "EXPECT" /\ ~s.cond

FailsAssert(s) == s.op = "ASSERT" /\ ~s.cond

\* The last statement of the body that runs once statement p has run: the
\* first failing fatal check after p, or the end of the body.
LastReached(body, p) ==
    IF \E q \in (p + 1)..Len(body) : FailsAssert(body[q])
    THEN CHOOSE q \in (p + 1)..Len(body) :
             /\ FailsAssert(body[q])
             /\ \A r \in (p + 1)..(q - 1) : ~FailsAssert(body[r])
    ELSE Len(body)

\* The statements of test idx executed so far are 1, 2, 3, ... in order.
ExecutedInOrder(idx) ==
    \A k \in EventsOf("stmt", idx) :
        trace[k].ip = Cardinality({m \in EventsOf("stmt", idx) : m <= k})

C2_ExpectContinues ==
    \A idx \in Registered :
        \A k \in EventsOf("stmt", idx) :
            FailsExpect(BodyOf(idx)[trace[k].ip]) =>
                /\ ExecutedInOrder(idx)
                /\ \A m \in EventsOf("longjmp", idx) :
                       trace[m].ip # trace[k].ip
                /\ Finished(idx) =>
                       /\ \A pos \in (trace[k].ip + 1)
                                     ..LastReached(BodyOf(idx), trace[k].ip) :
                              Executed(idx, pos)
                       /\ ~g_bmt_test_cases[idx].last_run_passed

\* A finished test whose EXPECT failed, whose later statements ran and
\* whose later fatal check passed.
C2_Witness ==
    \E idx \in Registered :
        /\ Finished(idx)
        /\ ~Fatal(idx)
        /\ \E p \in 1..Len(BodyOf(idx)) :
               /\ FailsExpect(BodyOf(idx)[p])
               /\ Executed(idx, p)
               /\ \E q \in (p + 1)..Len(BodyOf(idx)) :
                      /\ BodyOf(idx)[q].op = "ASSERT"
                      /\ BodyOf(idx)[q].cond
                      /\ Executed(idx, q)

(***************************************************************************)
(* C3.  When bmt_run_all_tests returns, its return value is the number of  *)
(* registered descriptors whose last_run_passed is false, and the          *)
(* "[  FAILED  ] suite.name" lines of the summary list name exactly those  *)
(* descriptors, each once, in registration order.                          *)
(***************************************************************************)
FailedTests == {idx \in Registered : ~g_bmt_test_cases[idx].last_run_passed}

\* Number of failed descriptors registered before idx.
FailedBefore(idx) == Cardinality({j \in FailedTests : j < idx})

\* Positions of the "tests, listed below:" token on the output channel.
ListedAt == {k \in 1..Len(out) : out[k] = Puts(Lit.LISTED)}

\* The five tokens of the list line that starts after position b name tc.
ListLine(b, tc) ==
    /\ out[b + 1] = Puts(Lit.FAILED)
    /\ out[b + 2] = Puts(tc.suite_name)
    /\ out[b + 3] = Putchar(".")
    /\ out[b + 4] = Puts(tc.test_name)
    /\ out[b + 5] = Puts(Lit.CRLF)

C3_FailureCountAndList ==
    pc = "returned" =>
        /\ ret = Cardinality(FailedTests)
        /\ out[Len(out) - 2] = Puts(Lit.CRLF)
        /\ IF FailedTests = {}
           THEN ListedAt = {} /\ out[Len(out) - 3] = Puts(Lit.TESTS_DOT)
           ELSE \E L \in ListedAt :
                    /\ ListedAt = {L}
                    /\ Len(out) = L + 5 * Cardinality(FailedTests) + 3
                    /\ \A idx \in FailedTests :
                           ListLine(L + 5 * FailedBefore(idx),
                                    g_bmt_test_cases[idx])

\* A returned run in which the first test passed and the second failed.
C3_Witness ==
    /\ pc = "returned"
    /\ g_bmt_test_count >= 2
    /\ g_bmt_test_cases[0].last_run_passed
    /\ ~g_bmt_test_cases[1].last_run_passed

(***************************************************************************)
(* C4.  The recorded outcome last_run_passed of a test is true exactly     *)
(* when its body completed without a fatal transfer and the                *)
(* non-fatal-failure flag is false at the end of the body.                 *)
(***************************************************************************)
\* The body of test idx ran to its end and returned.
Completed(idx) == EventsOf("return", idx) # {}

C4_Outcome ==
    [][pc = "after" /\ pc' = "loop" =>
         (g_bmt_test_cases'[i].last_run_passed
              <=> (Completed(i) /\ ~g_bmt_current_test_failed_expect))]_vars

\* A returned run with a passed test and with a test that completed its
\* body but failed.
C4_Witness ==
    /\ pc = "returned"
    /\ \E a, b \in Registered :
           /\ g_bmt_test_cases[a].last_run_passed
           /\ Completed(b)
           /\ ~g_bmt_test_cases[b].last_run_passed

(***************************************************************************)
(* C5.  A test whose body executes ADD_FAILURE() is marked as failed (its  *)
(* result line is "[  FAILED  ]" and it is counted in the returned failure *)
(* count), while execution of the body continues after ADD_FAILURE().      *)
(***************************************************************************)
\* Test idx has executed an ADD_FAILURE() statement.
AddedFailure(idx) ==
    \E pos \in 1..Len(BodyOf(idx)) :
        BodyOf(idx)[pos].op = "ADD_FAILURE" /\ Executed(idx, pos)

\* The result line of test idx carries the given tag.
HasResultLine(tag, idx) ==
    \E k \in 1..Len(out) : ResultLine(tag, g_bmt_test_cases[idx], k)

C5_AddFailureMarksFailed ==
    \A idx \in Registered :
        Finished(idx) /\ AddedFailure(idx) =>
            /\ ~g_bmt_test_cases[idx].last_run_passed
            /\ HasResultLine(Lit.FAILED, idx)
            /\ ~HasResultLine(Lit.OK, idx)
            /\ (pc = "returned" => ret >= 1)
            /\ \A pos \in 1..Len(BodyOf(idx)) :
                   BodyOf(idx)[pos].op = "ADD_FAILURE" =>
                       \A q \in (pos + 1)..LastReached(BodyOf(idx), pos) :
                           Executed(idx, q)

(***************************************************************************)
(* C6.  For all N <= BMT_MAX_TEST_CASES, after N calls of                  *)
(* bmt_register_test the registry count is N and the i-th descriptor holds *)
(* the body of the i-th registration and its suite name and test name,     *)
(* each cut to its first BMT_MAX_*_NAME_LEN - 1 characters;                *)
(* bmt_run_all_tests invokes the bodies in exactly that order.             *)
(***************************************************************************)
\* stored is name cut to at most limit characters.
IsPrefixUpTo(stored, name, limit) ==
    /\ Len(stored) = (IF Len(name) < limit THEN Len(name) ELSE limit)
    /\ \A j \in 1..Len(stored) : stored[j] = name[j]

InvokeEvents == {k \in 1..Len(trace) : trace[k].ev = "invoke"}

\* The m-th invocation of the run is that of the m-th registered function.
InvokedInRegistrationOrder ==
    /\ \A k \in InvokeEvents :
           LET m == Cardinality({j \in InvokeEvents : j <= k})
           IN  /\ m <= Len(register_calls)
               /\ trace[k].idx = m - 1
               /\ trace[k].func = register_calls[m].func
    /\ pc = "returned" => Cardinality(InvokeEvents) = g_bmt_test_count

C6_RegistrationOrder ==
    Len(register_calls) <= BMT_MAX_TEST_CASES =>
        /\ g_bmt_test_count = Len(register_calls)
        /\ \A n \in 1..Len(register_calls) :
               /\ g_bmt_test_cases[n - 1].func = register_calls[n].func
               /\ IsPrefixUpTo(g_bmt_test_cases[n - 1].suite_name,
                               register_calls[n].suite_name,
                               BMT_MAX_SUITE_NAME_LEN - 1)
               /\ IsPrefixUpTo(g_bmt_test_cases[n - 1].test_name,
                               register_calls[n].test_name,
                               BMT_MAX_TEST_NAME_LEN - 1)
        /\ InvokedInRegistrationOrder

\* The claim as first stated: the descriptor holds the names as passed.
C6_HoldsNamesAsPassed ==
    Len(register_calls) <= BMT_MAX_TEST_CASES =>
        /\ g_bmt_test_count = Len(register_calls)
        /\ \A n \in 1..Len(register_calls) :
               /\ g_bmt_test_cases[n - 1].func = register_calls[n].func
               /\ g_bmt_test_cases[n - 1].suite_name
                      = register_calls[n].suite_name
               /\ g_bmt_test_cases[n - 1].test_name
                      = register_calls[n].test_name
        /\ InvokedInRegistrationOrder

\* A returned run over a full registry of different functions, one of them
\* registered under an oversized name.
C6_Witness ==
    /\ pc = "returned"
    /\ Len(register_calls) = BMT_MAX_TEST_CASES
    /\ g_bmt_test_count = BMT_MAX_TEST_CASES
    /\ \E a, b \in 1..Len(register_calls) :
           /\ a < b
           /\ register_calls[a].func # register_calls[b].func
           /\ Len(register_calls[b].suite_name) >= BMT_MAX_SUITE_NAME_LEN

(***************************************************************************)
(* C7.  The registry count never exceeds BMT_MAX_TEST_CASES; a             *)
(* bmt_register_test call made at capacity leaves the count and every      *)
(* stored descriptor unchanged, emits the overflow diagnostic, and returns *)
(* normally, so that a later run executes exactly the first capacity-many  *)
(* registered tests.                                                       *)
(***************************************************************************)
\* This step is a bmt_register_test call made when the registry is full.
OverflowCall ==
    /\ Len(register_calls') = Len(register_calls) + 1
    /\ g_bmt_test_count = BMT_MAX_TEST_CASES

C7_CapacityInvariant ==
    /\ g_bmt_test_count <= BMT_MAX_TEST_CASES
    /\ (pc = "load" => ENABLED RunStart)
    /\ (pc = "returned" /\ Len(register_calls) > BMT_MAX_TEST_CASES =>
            /\ Cardinality(InvokeEvents) = BMT_MAX_TEST_CASES
            /\ InvokedInRegistrationOrder)

C7_RegistryOverflow ==
    /\ []C7_CapacityInvariant
    /\ [][OverflowCall =>
            /\ g_bmt_test_count' = g_bmt_test_count
            /\ g_bmt_test_cases' = g_bmt_test_cases
            /\ out' = Append(out, Puts(Lit.ERR_MAX))
            /\ pc' = pc]_vars

\* A returned run that followed a registration call made at capacity.
C7_Witness ==
    /\ pc = "returned"
    /\ Len(register_calls) = BMT_MAX_TEST_CASES + 1
    /\ g_bmt_test_count = BMT_MAX_TEST_CASES
    /\ out[1] = Puts(Lit.ERR_MAX)

(***************************************************************************)
(* C8.  For every pair of 32-bit tick values (start, end) the recorded     *)
(* duration is end - start when end >= start and                           *)
(* (0xFFFFFFFF - start) + end + 1 otherwise, that is (end - start) modulo  *)
(* 2^32, always within 0..0xFFFFFFFF; for start = 0xFFFFFFF0 and end = 5   *)
(* it is 21.                                                               *)
(***************************************************************************)
IsU32(x) == x \in (0..(Limb - 1)) \X (0..(Limb - 1))

\* a < b as 32-bit unsigned numbers.
Below(a, b) == a[1] < b[1] \/ (a[1] = b[1] /\ a[2] < b[2])

\* The exact sum a + b: its low 32 bits and the carry out of them.
ExactSum(a, b) ==
    LET lo == a[2] + b[2]
        hi == a[1] + b[1] + (IF lo >= Limb THEN 1 ELSE 0)
    IN  [low |-> <<IF hi >= Limb THEN hi - Limb ELSE hi,
                   IF lo >= Limb THEN lo - Limb ELSE lo>>,
         carry |-> IF hi >= Limb THEN 1 ELSE 0]

\* d = e - s with no wrap.
IsDifference(d, e, s) ==
    ExactSum(s, d) = [low |-> e, carry |-> 0]

\* d = (0xFFFFFFFF - s) + e + 1, no step of which leaves 0..0xFFFFFFFF.
IsWrappedDifference(d, e, s) ==
    LET n  == <<Limb - 1 - s[1], Limb - 1 - s[2]>>
        s1 == ExactSum(n, e)
        s2 == ExactSum(s1.low, <<0, 1>>)
    IN  s1.carry = 0 /\ s2.carry = 0 /\ s2.low = d

\* d = (e - s) modulo 2^32.
IsDifferenceMod32(d, e, s) == ExactSum(s, d).low = e

\* The locals start_ticks and end_ticks still hold the ticks of test idx.
JustTimed(idx) ==
    Finished(idx) /\ i = idx + 1 /\ pc \in {"loop", "returned"}

C8_Duration ==
    \A idx \in Registered :
        JustTimed(idx) =>
            LET d == g_bmt_test_cases[idx].duration_ms
            IN  /\ IsU32(d)
                /\ IsDifferenceMod32(d, end_ticks, start_ticks)
                /\ IF Below(end_ticks, start_ticks)
                   THEN IsWrappedDifference(d, end_ticks, start_ticks)
                   ELSE IsDifference(d, end_ticks, start_ticks)
                /\ (start_ticks = <<65535, 65520>> /\ end_ticks = <<0, 5>>
                        => d = <<0, 21>>)

\* The test ran from tick 0xFFFFFFF0 to tick 5.
C8_Witness ==
    /\ JustTimed(0)
    /\ start_ticks = <<65535, 65520>>
    /\ end_ticks = <<0, 5>>
    /\ g_bmt_test_cases[0].duration_ms = <<0, 21>>

(***************************************************************************)
(* C9.  The non-fatal-failure flag is false when each test body begins: a  *)
(* non-fatal failure (or a fatal abort following one) in test i never      *)
(* causes a later test whose own checks all pass to be recorded as failed. *)
(***************************************************************************)
\* No statement of the body reports a failure.
AllChecksPass(body) ==
    \A p \in 1..Len(body) :
        /\ body[p].op \in {"ASSERT", "EXPECT"} => body[p].cond
        /\ body[p].op # "ADD_FAILURE"

\* Test idx set the non-fatal-failure flag.
FailedExpect(idx) ==
    \E p \in 1..Len(BodyOf(idx)) :
        FailsExpect(BodyOf(idx)[p]) /\ Executed(idx, p)

C9_FlagResetPerTest ==
    /\ (pc = "body" /\ ip = 1 => ~g_bmt_current_test_failed_expect)
    /\ \A j \in Registered :
           Finished(j) /\ AllChecksPass(BodyOf(j)) =>
               g_bmt_test_cases[j].last_run_passed

\* A test with only passing checks passed after a test that failed an
\* EXPECT and was then aborted by an ASSERT.
C9_Witness ==
    \E a, b \in Registered :
        /\ a < b
        /\ FailedExpect(a)
        /\ Fatal(a)
        /\ Finished(b)
        /\ AllChecksPass(BodyOf(b))
        /\ \E p \in 1..Len(BodyOf(b)) : BodyOf(b)[p].op = "EXPECT"
        /\ g_bmt_test_cases[b].last_run_passed

(***************************************************************************)
(* C10.  During one bmt_run_all_tests call every registered descriptor's   *)
(* body is invoked exactly once and its last_run_passed and duration_ms    *)
(* are written exactly once, whatever the outcomes of the tests before it. *)
(***************************************************************************)
C10_ExactlyOnce ==
    /\ \A k \in 1..Len(trace) : trace[k].idx \in Registered
    /\ \A idx \in Registered :
           /\ Cardinality(EventsOf("invoke", idx)) <= 1
           /\ Cardinality(EventsOf("write", idx)) <= 1
           /\ \A w \in EventsOf("write", idx) :
                  \E v \in EventsOf("invoke", idx) : v < w
           /\ pc = "returned" =>
                  /\ Cardinality(EventsOf("invoke", idx)) = 1
                  /\ Cardinality(EventsOf("write", idx)) = 1

\* A returned run of a full registry whose first test was aborted.
C10_Witness ==
    /\ pc = "returned"
    /\ g_bmt_test_count = BMT_MAX_TEST_CASES
    /\ g_bmt_test_count >= 2
    /\ Fatal(0)
    /\ Finished(g_bmt_test_count - 1)

(***************************************************************************)
(* C11.  The output of a run is ordered: the "[==========] Running N       *)
(* tests." line comes first; then, for each test in registration order, a  *)
(* "[ RUN      ] suite.name" line is followed, before any other test's RUN *)
(* line, by exactly one "[       OK ]" or "[  FAILED  ]" result line for   *)
(* the same suite.name, that test's failure reports lying only between the *)
(* two; the "[==========] N tests ran." line comes after the last result   *)
(* line and before "[  PASSED  ]".                                         *)
(***************************************************************************)
\* Output calls made before bmt_run_all_tests was entered: one overflow
\* diagnostic per registration call that found the registry full.
LoadOutput == Len(register_calls) - g_bmt_test_count

\* The j-th smallest element of a set of positions.
Nth(S, j) == CHOOSE x \in S : Cardinality({y \in S : y < x}) = j - 1

RunPositions == {k \in 1..Len(out) : out[k] = Puts(Lit.RUN)}

\* Positions where a result line starts: a tag followed, four calls later,
\* by the opening of the duration.
ResultPositions ==
    {k \in 1..Len(out) :
        /\ out[k] \in {Puts(Lit.OK), Puts(Lit.FAILED)}
        /\ k + 4 <= Len(out)
        /\ out[k + 4] = Puts(Lit.OPEN_DUR)}

\* Positions of the ": Failure" token of a failure report.
ReportPositions == {k \in 1..Len(out) : out[k] = Puts(Lit.FAILURE)}

\* Positions where the "[==========] N tests ran." line starts.
RanPositions ==
    {k \in 1..Len(out) :
        /\ out[k] = Puts(Lit.BAR)
        /\ k + 2 <= Len(out)
        /\ out[k + 2] = Puts(Lit.TESTS_RAN)}

PassedPositions == {k \in 1..Len(out) : out[k] = Puts(Lit.PASSED)}

\* The five tokens starting at position k are the RUN line of tc.
RunLineAt(k, tc) ==
    /\ k + 4 <= Len(out)
    /\ out[k] = Puts(Lit.RUN)
    /\ out[k + 1] = Puts(tc.suite_name)
    /\ out[k + 2] = Putchar(".")
    /\ out[k + 3] = Puts(tc.test_name)
    /\ out[k + 4] = Puts(Lit.CRLF)

\* Statements of test idx that have executed and reported a failure.
ReportsOf(idx) ==
    {pos \in 1..Len(BodyOf(idx)) :
        /\ Executed(idx, pos)
        /\ \/ FailsAssert(BodyOf(idx)[pos])
           \/ FailsExpect(BodyOf(idx)[pos])
           \/ BodyOf(idx)[pos].op = "ADD_FAILURE"}

\* The failure reports of the j-th test lie after its RUN line and before
\* its result line (before the end of the output while it is running).
ReportsBetween(j, upto) ==
    Cardinality({f \in ReportPositions :
                    Nth(RunPositions, j) < f /\ f < upto})
        = Cardinality(ReportsOf(j - 1))

C11_OutputOrder ==
    pc # "load" =>
        LET started == Cardinality(RunPositions)
            done    == Cardinality(ResultPositions)
        IN  /\ out[LoadOutput + 1] = Puts(Lit.RUNNING)
            /\ out[LoadOutput + 2] = PutsInt(g_bmt_test_count)
            /\ out[LoadOutput + 3] = Puts(Lit.TESTS_DOT)
            /\ \A k \in 1..LoadOutput : out[k] = Puts(Lit.ERR_MAX)
            /\ started = Cardinality({x \in Registered :
                                         EventsOf("invoke", x) # {}})
            /\ done = Cardinality({x \in Registered : Finished(x)})
            /\ done <= started
            /\ started <= done + 1
            /\ \A j \in 1..started :
                   RunLineAt(Nth(RunPositions, j), g_bmt_test_cases[j - 1])
            /\ \A j \in 1..done :
                   LET r  == Nth(RunPositions, j)
                       s  == Nth(ResultPositions, j)
                       tc == g_bmt_test_cases[j - 1]
                   IN  /\ r < s
                       /\ j < started => s < Nth(RunPositions, j + 1)
                       /\ ResultLine(IF tc.last_run_passed THEN Lit.OK
                                     ELSE Lit.FAILED, tc, s)
                       /\ ReportsBetween(j, s)
            /\ started > done => ReportsBetween(started, Len(out) + 1)
            /\ Cardinality(ReportPositions)
                   = Cardinality({p \in 1..Len(trace) :
                        /\ trace[p].ev = "stmt"
                        /\ trace[p].ip \in ReportsOf(trace[p].idx)})
            /\ IF pc = "returned"
               THEN /\ started = g_bmt_test_count
                    /\ done = g_bmt_test_count
                    /\ \E n \in RanPositions, p \in PassedPositions :
                           /\ RanPositions = {n}
                           /\ PassedPositions = {p}
                           /\ out[n + 1] = PutsInt(g_bmt_test_count)
                           /\ n < p
                           /\ \A s \in ResultPositions : s + 6 < n
                           /\ \A r \in RunPositions : r < n
               ELSE RanPositions = {} /\ PassedPositions = {}

\* A returned run of two tests after an overflowing registration, in which
\* the first test printed two failure reports and the second none.
C11_Witness ==
    /\ pc = "returned"
    /\ LoadOutput = 1
    /\ g_bmt_test_count = 2
    /\ Cardinality(ReportsOf(0)) = 2
    /\ Cardinality(ReportsOf(1)) = 0
    /\ Cardinality(ReportPositions) = 2
    /\ Cardinality(ResultPositions) = 2

(***************************************************************************)
(* C12.  Radix-10 conversion (bmt_itoa) yields "0" for 0; for every        *)
(* negative value representable in the long type, including the most       *)
(* negative one, it yields "-" followed by the decimal digits of the       *)
(* magnitude with no leading zeros; for every positive value it yields the *)
(* decimal digits with no sign and no leading zeros.                       *)
(***************************************************************************)
IsDigit(c) == c \in {"0", "1", "2", "3", "4", "5", "6", "7", "8", "9"}

DigitValue(c) ==
    CHOOSE d \in 0..9 :
        <<c, d>> \in {<<"0", 0>>, <<"1", 1>>, <<"2", 2>>, <<"3", 3>>,
                      <<"4", 4>>, <<"5", 5>>, <<"6", 6>>, <<"7", 7>>,
                      <<"8", 8>>, <<"9", 9>>}

\* m * 10 + c on a magnitude of 16-bit limbs, least significant limb first
\* in the recursion; carry is what leaves the most significant limb.
RECURSIVE TimesTenPlus(_, _)
TimesTenPlus(m, c) ==
    IF m = <<>>
    THEN [mag |-> <<>>, carry |-> c]
    ELSE LET x == m[Len(m)] * 10 + c
             r == TimesTenPlus(SubSeq(m, 1, Len(m) - 1), x \div Limb)
         IN  [mag |-> Append(r.mag, x % Limb), carry |-> r.carry]

\* The number a sequence of decimal digits denotes, as a magnitude.
RECURSIVE DecimalValue(_)
DecimalValue(digits) ==
    IF digits = <<>>
    THEN <<>>
    ELSE LET r == TimesTenPlus(DecimalValue(SubSeq(digits, 1,
                                                   Len(digits) - 1)),
                               DigitValue(digits[Len(digits)]))
         IN  IF r.carry = 0 THEN r.mag ELSE <<r.carry>> \o r.mag

\* txt is the decimal text of the long val: "0", or an optional "-" and
\* the digits of the magnitude without leading zeros.
IsDecimalOf(txt, val) ==
    IF IsZero(val.mag)
    THEN txt = <<"0">>
    ELSE /\ Len(txt) > (IF val.neg THEN 1 ELSE 0)
         /\ val.neg => txt[1] = "-"
         /\ LET digits == IF val.neg THEN Tail(txt) ELSE txt
            IN  /\ \A k \in 1..Len(digits) : IsDigit(digits[k])
                /\ digits[1] # "0"
                /\ Strip(DecimalValue(digits)) = Strip(val.mag)

\* The text bmt_itoa left in buffer for the result line of test idx.
DurationText(idx) == out[Nth(ResultPositions, idx + 1) + 5].str

\* The long that bmt_itoa received for the result line of test idx.
DurationLong(idx) == U32ToLong(g_bmt_test_cases[idx].duration_ms, long_bits)

C12_ItoaDecimal ==
    \A idx \in Registered :
        Finished(idx) => IsDecimalOf(DurationText(idx), DurationLong(idx))

\* The conversion is as stated for every value but the most negative long.
C12_DecimalUnlessLongMin ==
    \A idx \in Registered :
        Finished(idx) /\ ~IsLongMin(DurationLong(idx), long_bits) =>
            IsDecimalOf(DurationText(idx), DurationLong(idx))

(***************************************************************************)
(* Vocabulary of the message properties.                                   *)
(***************************************************************************)
\* The characters a sequence of output calls puts on the channel; a read
\* with no defined result is kept as a mark of its own.
RECURSIVE Flatten(_)
Flatten(calls) ==
    IF calls = <<>>
    THEN <<>>
    ELSE (IF calls[1].call = "undefined" THEN <<"undefined">>
          ELSE calls[1].str)
         \o Flatten(Tail(calls))

\* Positions of the "    Message: " token of a failure report.
MessagePositions == {k \in 1..Len(out) : out[k] = Puts(Lit.MESSAGE)}

\* The line end that closes the message starting after position k.
MessageEnd(k) ==
    CHOOSE e \in (k + 1)..Len(out) :
        /\ out[e] = Puts(Lit.CRLF)
        /\ \A m \in (k + 1)..(e - 1) : out[m] # Puts(Lit.CRLF)

\* The text of the message that starts after position k.
MessageText(k) == Flatten(SubSeq(out, k + 1, MessageEnd(k) - 1))

\* The text the formatter gives for a template and an argument list when
\* beyond follows the template in memory.
Formatted(fmt, args, beyond) ==
    Flatten(FormatMessage(fmt \o <<NUL>> \o beyond \o <<NUL>>, 1, args, 1))

\* Position of the first '%' of a template, 0 if it has none.
FirstPercent(fmt) ==
    IF \E p \in 1..Len(fmt) : fmt[p] = "%"
    THEN CHOOSE p \in 1..Len(fmt) :
             fmt[p] = "%" /\ \A q \in 1..(p - 1) : fmt[q] # "%"
    ELSE 0

\* The template starts, at its first '%', with "%s" / "%ld" / a '%' and
\* another character that make no recognised directive.
StartsStr(fmt) ==
    LET p == FirstPercent(fmt)
    IN  p > 0 /\ p < Len(fmt) /\ fmt[p + 1] = "s"

StartsLong(fmt) ==
    LET p == FirstPercent(fmt)
    IN  p > 0 /\ p + 2 <= Len(fmt) /\ fmt[p + 1] = "l" /\ fmt[p + 2] = "d"

StartsUnknown(fmt) ==
    LET p == FirstPercent(fmt)
    IN  p > 0 /\ p < Len(fmt) /\ ~StartsStr(fmt) /\ ~StartsLong(fmt)

\* What precedes the first '%' of the template and what follows its first
\* directive of n characters.
Before(fmt) == SubSeq(fmt, 1, FirstPercent(fmt) - 1)

After(fmt, n) == SubSeq(fmt, FirstPercent(fmt) + n, Len(fmt))

\* The failing EXPECT of the CustomMessage test has reported.
CustomReported ==
    /\ g_bmt_test_count = 1
    /\ g_bmt_test_cases[0].func = "CustomMessage"
    /\ Executed(0, 1)

(***************************************************************************)
(* C13.  For every message template, a '%' followed by a character other   *)
(* than 's' or the pair "ld" is emitted as the two literal characters '%'  *)
(* and that character, after which formatting continues with the rest of   *)
(* the template; an unrecognized directive never aborts or truncates the   *)
(* report.                                                                 *)
(***************************************************************************)
C13_UnknownDirectiveVerbatim ==
    CustomReported /\ StartsUnknown(user_fmt) =>
        \E k \in MessagePositions :
            /\ MessagePositions = {k}
            /\ \E e \in (k + 1)..Len(out) : out[e] = Puts(Lit.CRLF)
            /\ \E beyond \in MemoryAfter :
                   MessageText(k) =
                       Before(user_fmt)
                       \o <<"%", user_fmt[FirstPercent(user_fmt) + 1]>>
                       \o Formatted(After(user_fmt, 2), user_args, beyond)
            /\ pc = "body" => ENABLED BodyReturn
            /\ pc = "returned" =>
                   /\ HasResultLine(Lit.FAILED, 0)
                   /\ ret = 1

\* A returned run whose template held an unrecognised directive followed
\* by a recognised directive that found its argument.
C13_Witness ==
    /\ pc = "returned"
    /\ CustomReported
    /\ user_fmt = <<"%", "d", "%", "s">>
    /\ user_args = <<StrArg(TestText.HI)>>
    /\ \E k \in MessagePositions :
           MessageText(k) = <<"%", "d", "h", "i">>

(***************************************************************************)
(* C14.  In a message template, "%s" emits exactly the text of its string  *)
(* argument, or the marker "(null)" when the argument is a null pointer;   *)
(* "%ld" emits the radix-10 text of its long argument; every template      *)
(* character outside a directive is emitted unchanged and in order.        *)
(***************************************************************************)
\* The first argument exists and has the given type.
FirstArgIs(type) == user_args # <<>> /\ user_args[1].type = type

\* The message is the text before the first directive, then mid, then what
\* the formatter gives for the rest of the template and of the arguments.
MessageIs(k, mid, n, beyond) ==
    MessageText(k) =
        Before(user_fmt) \o mid
        \o Formatted(After(user_fmt, n), Tail(user_args), beyond)

\* What the message holds between the text before its first directive and
\* the text of what follows that directive of n characters.
Middle(k, n, beyond) ==
    SubSeq(MessageText(k), Len(Before(user_fmt)) + 1,
           Len(MessageText(k))
               - Len(Formatted(After(user_fmt, n), Tail(user_args), beyond)))

StepEnds(ev) ==
    /\ Len(trace') > Len(trace)
    /\ trace'[Len(trace')].ev = ev

\* The test whose body was invoked last before position k of the trace.
RunningAt(k) ==
    LET before == {m \in InvokeEvents : m < k}
    IN  IF before = {} THEN -1
        ELSE trace[CHOOSE m \in before : \A n \in before : n <= m].idx

C15_ResumptionInvariant ==
    /\ pc \in {"body", "after"} => g_bmt_assert_jmp_buf = i
    /\ \A idx \in Registered : Cardinality(EventsOf("longjmp", idx)) <= 1
    /\ \A k \in 1..Len(trace) :
           trace[k].ev = "longjmp" =>
               /\ RunningAt(k) = trace[k].idx
               /\ \A m \in 1..(k - 1) :
                      trace[m].idx = trace[k].idx =>
                          trace[m].ev \in {"invoke", "stmt"}
               /\ \A m \in (k + 1)..Len(trace) :
                      trace[m].idx = trace[k].idx => trace[m].ev = "write"

C15_ResumptionPoint ==
    /\ []C15_ResumptionInvariant
    /\ [][/\ StepEnds("invoke") =>
                 /\ pc = "loop"
                 /\ g_bmt_assert_jmp_buf' = i
                 /\ pc' = "body"
                 /\ i' = i
          /\ StepEnds("longjmp") =>
                 /\ pc = "body"
                 /\ g_bmt_assert_jmp_buf = i
                 /\ i' = i
                 /\ pc' = "after"
                 /\ ~current_test_passed_assert'
                 /\ trace'[Len(trace')].idx = i]_vars

\* A returned run in which the first test ran to its end and the second
\* took the fatal transfer.
C15_Witness ==
    /\ pc = "returned"
    /\ g_bmt_test_count >= 2
    /\ Completed(0)
    /\ Fatal(1)
    /\ ~g_bmt_test_cases[1].last_run_passed

(***************************************************************************)
(* C16.  If every registered test body either returns or fails a fatal     *)
(* check, bmt_run_all_tests eventually emits the final summary and returns *)
(* its result code; no combination of test outcomes makes the runner       *)
(* itself stop early or loop forever.                                      *)
(***************************************************************************)
\* The last three output calls are the final count of failed tests.
FinalSummaryEmitted ==
    /\ Len(out) >= 3
    /\ out[Len(out) - 2] = Puts(Lit.CRLF)
    /\ out[Len(out) - 1] = PutsInt(tests_failed)
    /\ out[Len(out)] \in {Puts(Lit.FAILED_TEST), Puts(Lit.FAILED_TESTS)}

\* The run has returned its result code after the whole loop.
RunReturned ==
    /\ pc = "returned"
    /\ ret = tests_failed
    /\ i = g_bmt_test_count
    /\ tests_passed + tests_failed = g_bmt_test_count
    /\ FinalSummaryEmitted

C16_RunTerminates ==
    /\ [](pc = "returned" => RunReturned)
    /\ <>RunReturned

\* A returned run in which one test was aborted by a fatal check and
\* another failed a non-fatal check and returned.
C16_Witness ==
    /\ RunReturned
    /\ \E a, b \in Registered :
           /\ Fatal(a)
           /\ Completed(b)
           /\ FailedExpect(b)

(***************************************************************************)
(* C17.  SUCCEED() changes neither the non-fatal-failure flag nor the      *)
(* fatal outcome nor any descriptor: a test's recorded pass/fail is the    *)
(* same with or without SUCCEED() calls in its body.                       *)
(***************************************************************************)
\* The body with its SUCCEED() statements taken out.
WithoutSucceed(body) == SelectSeq(body, LAMBDA s : s.op # "SUCCEED")

\* The outcome the checks of a body call for: no check fails among the
\* statements up to the first failing fatal check.
ChecksPass(body) ==
    \A p \in 1..Len(body) :
        (\A q \in 1..(p - 1) : ~FailsAssert(body[q])) =>
            ~FailsAssert(body[p]) /\ ~FailsExpect(body[p])

\* The running test is about to execute a SUCCEED().
AtSucceed == InBody /\ CurrentStmt.op = "SUCCEED"

C17_SucceedInvariant ==
    \A idx \in Registered :
        Finished(idx) =>
            (g_bmt_test_cases[idx].last_run_passed
                 <=> ChecksPass(WithoutSucceed(BodyOf(idx))))

C17_SucceedChangesNothing ==
    /\ []C17_SucceedInvariant
    /\ [][AtSucceed =>
            /\ g_bmt_current_test_failed_expect'
                   = g_bmt_current_test_failed_expect
            /\ current_test_passed_assert' = current_test_passed_assert
            /\ g_bmt_test_cases' = g_bmt_test_cases
            /\ g_bmt_test_count' = g_bmt_test_count
            /\ g_bmt_assert_jmp_buf' = g_bmt_assert_jmp_buf
            /\ pc' = pc
            /\ i' = i
            /\ tests_passed' = tests_passed
            /\ tests_failed' = tests_failed]_vars

\* A returned run with a test that passed on a body of SUCCEED() alone and
\* a test recorded as failed whose SUCCEED() ran after its failed EXPECT.
C17_Witness ==
    /\ pc = "returned"
    /\ \E a, b \in Registered :
           /\ g_bmt_test_cases[a].func = "NullPointer"
           /\ Executed(a, 1)
           /\ g_bmt_test_cases[a].last_run_passed
           /\ g_bmt_test_cases[b].func = "SucceedAfterExpect"
           /\ Executed(b, 2)
           /\ Completed(b)
           /\ ~g_bmt_test_cases[b].last_run_passed

(***************************************************************************)
(* C18.  bmt_register_test with a suite or test name of any length stores  *)
(* a null-terminated name equal to the first min(length, 63) characters of *)
(* the input (BMT_MAX_*_NAME_LEN - 1), and the registration succeeds       *)
(* (count incremented, no diagnostic) even when the name was truncated.    *)
(***************************************************************************)
\* This step is a bmt_register_test call that finds room in the registry.
RegisterCall ==
    /\ Len(register_calls') = Len(register_calls) + 1
    /\ g_bmt_test_count < BMT_MAX_TEST_CASES

\* stored is the first min(Len(name), 63) characters of name, and with its
\* terminator it fits a field of size characters.
IsFirst63(stored, name, size) ==
    /\ Len(stored) = (IF Len(name) < 63 THEN Len(name) ELSE 63)
    /\ \A k \in 1..Len(stored) : stored[k] = name[k]
    /\ Len(stored) + 1 <= size

C18_Truncation ==
    [][RegisterCall =>
         LET call == register_calls'[Len(register_calls')]
             slot == g_bmt_test_cases'[g_bmt_test_count]
         IN  /\ IsFirst63(slot.suite_name, call.suite_name,
                          BMT_MAX_SUITE_NAME_LEN)
             /\ IsFirst63(slot.test_name, call.test_name,
                          BMT_MAX_TEST_NAME_LEN)
             /\ slot.func = call.func
             /\ g_bmt_test_count' = g_bmt_test_count + 1
             /\ out' = out
             /\ \A k \in 0..(BMT_MAX_TEST_CASES - 1) :
                    k # g_bmt_test_count =>
                        g_bmt_test_cases'[k] = g_bmt_test_cases[k]]_vars

\* The registry is full of descriptors registered without a diagnostic,
\* one under a suite name of 64 characters stored as its first 63 and one
\* under a suite name of 63 characters stored whole.
C18_Witness ==
    /\ g_bmt_test_count = BMT_MAX_TEST_CASES
    /\ out = <<>>
    /\ \E a, b \in 1..Len(register_calls) :
           /\ Len(register_calls[a].suite_name) = 64
           /\ Len(g_bmt_test_cases[a - 1].suite_name) = 63
           /\ Len(register_calls[a].test_name) > 64
           /\ Len(g_bmt_test_cases[a - 1].test_name) = 63
           /\ Len(register_calls[b].suite_name) = 63
           /\ g_bmt_test_cases[b - 1].suite_name
                  = register_calls[b].suite_name

(***************************************************************************)
(* C19.  A test whose body contains only passing checks is reported        *)
(* "[       OK ]", and the duration shown in its result line is a          *)
(* non-negative decimal number for every pair of start and end tick values *)
(* the platform can return (the 32-bit duration is rendered through the    *)
(* signed long conversion).                                                *)
(***************************************************************************)
\* txt is the decimal text, without sign, of the 32-bit unsigned u.
IsUnsignedDecimalOf(txt, u) ==
    /\ txt # <<>>
    /\ \A k \in 1..Len(txt) : IsDigit(txt[k])
    /\ Len(txt) > 1 => txt[1] # "0"
    /\ Strip(DecimalValue(txt)) = Strip(u)

\* Test idx is reported OK and its result line shows its duration.
PassedWithDuration(idx) ==
    /\ g_bmt_test_cases[idx].last_run_passed
    /\ ResultLine(Lit.OK, g_bmt_test_cases[idx],
                  Nth(ResultPositions, idx + 1))
    /\ IsUnsignedDecimalOf(DurationText(idx),
                           g_bmt_test_cases[idx].duration_ms)

C19_PassingDuration ==
    \A idx \in Registered :
        Finished(idx) /\ AllChecksPass(BodyOf(idx)) => PassedWithDuration(idx)

\* The claim holds where long is wider than the 32-bit duration.
C19_HoldsWithWideLong ==
    \A idx \in Registered :
        Finished(idx) /\ AllChecksPass(BodyOf(idx)) /\ long_bits = 64 =>
            PassedWithDuration(idx)

(***************************************************************************)
(* C20.  The summary block "[  FAILED  ] <n> tests, listed below:" with    *)
(* its enumerated list is emitted if and only if at least one test failed  *)
(* in the run; the "[  PASSED  ] <n> tests." line is always emitted and    *)
(* shows the number of descriptors recorded as passed.                     *)
(***************************************************************************)
PassedTests == {idx \in Registered : g_bmt_test_cases[idx].last_run_passed}

\* The three tokens starting at position k read tag, the decimal text of
\* n, and tail.
CountLineAt(k, tag, n, tail) ==
    /\ k >= 1
    /\ k + 2 <= Len(out)
    /\ out[k] = Puts(tag)
    /\ out[k + 1].call = "puts"
    /\ IsDecimalOf(out[k + 1].str, IntToLong(n))
    /\ out[k + 2] = Puts(tail)

\* Lines "[  FAILED  ] suite.name" that follow position L.
ListLinesAfter(L) ==
    {k \in (L + 1)..Len(out) :
        /\ out[k] = Puts(Lit.FAILED)
        /\ k + 4 <= Len(out)
        /\ out[k + 2] = Putchar(".")
        /\ out[k + 4] = Puts(Lit.CRLF)}

C20_SummaryBlocks ==
    IF pc = "returned"
    THEN /\ \E p \in PassedPositions :
                /\ PassedPositions = {p}
                /\ CountLineAt(p, Lit.PASSED, Cardinality(PassedTests),
                               Lit.TESTS_DOT)
                /\ \A L \in ListedAt : p < L
         /\ ListedAt # {} <=> FailedTests # {}
         /\ Cardinality(ListedAt) <= 1
         /\ \A L \in ListedAt :
                /\ CountLineAt(L - 2, Lit.FAILED, Cardinality(FailedTests),
                               Lit.LISTED)
                /\ Cardinality(ListLinesAfter(L)) = Cardinality(FailedTests)
         /\ Cardinality(PassedTests) + Cardinality(FailedTests)
                = g_bmt_test_count
    ELSE PassedPositions = {} /\ ListedAt = {}

\* A returned run of two tests of which exactly one failed.
C20_Witness ==
    /\ pc = "returned"
    /\ g_bmt_test_count = 2
    /\ Cardinality(FailedTests) = 1
    /\ Cardinality(PassedTests) = 1
    /\ ListedAt # {}

(***************************************************************************)
(* C21.  Every call of the reporting entry point emits, in this order:     *)
(* "<file>:<line>: Failure", then one line made of two spaces, the         *)
(* assertion-kind tag, "(", the expression text and ")", and then a        *)
(* "    Message: ..." line if and only if a message template was supplied  *)
(* (non-null).                                                             *)
(***************************************************************************)
\* The statement calls bmt_report_failure when it executes.
Reports(s) == FailsAssert(s) \/ FailsExpect(s) \/ s.op = "ADD_FAILURE"

\* The statement that event p of the trace executed.
StmtOf(p) == BodyOf(trace[p].idx)[trace[p].ip]

\* Positions of the trace at which a statement called bmt_report_failure.
ReportingEvents ==
    {p \in 1..Len(trace) : trace[p].ev = "stmt" /\ Reports(StmtOf(p))}

\* The four calls ending at position f give "<file>:<line>: Failure".
FileLineFailureAt(f, file, line) ==
    /\ f > 3
    /\ \A k \in (f - 3)..f : out[k].call # "undefined"
    /\ \E digits \in {out[f - 1].str} :
           /\ IsDecimalOf(digits, IntToLong(line))
           /\ Flatten(SubSeq(out, f - 3, f)) =
                  file \o <<":">> \o digits
                  \o <<":", " ", "F", "a", "i", "l", "u", "r", "e", "\r",
                       "\n">>

\* The call at position k gives the line "  kind(expr)".
KindExprLineAt(k, kind, expr) ==
    /\ k <= Len(out)
    /\ out[k].call = "puts"
    /\ out[k].str = <<" ", " ">> \o kind \o <<"(">> \o expr
                        \o <<")", "\r", "\n">>

\* A message line starts at position k: its label, and a line end after it.
MessageLineAt(k) ==
    /\ k <= Len(out)
    /\ out[k].call = "puts"
    /\ out[k].str = <<" ", " ", " ", " ", "M", "e", "s", "s", "a", "g", "e",
                      ":", " ">>
    /\ \E e \in (k + 1)..Len(out) : out[e] = Puts(Lit.CRLF)

C21_FailureBlock ==
    /\ Cardinality(ReportPositions) = Cardinality(ReportingEvents)
    /\ \A j \in 1..Cardinality(ReportPositions) :
           LET f == Nth(ReportPositions, j)
               s == StmtOf(Nth(ReportingEvents, j))
           IN  /\ FileLineFailureAt(f, MacroText.FILE, s.line)
               /\ KindExprLineAt(f + 1, s.kind, s.expr)
               /\ s.has_msg <=> MessageLineAt(f + 2)
               /\ ~s.has_msg /\ f + 2 <= Len(out) =>
                      out[f + 2] # Puts(Lit.MESSAGE)

\* Two reports are on the channel, one of a check that supplied a message
\* template and one of a check that supplied none.
C21_Witness ==
    \E a, b \in ReportingEvents :
        /\ StmtOf(a).has_msg
        /\ ~StmtOf(b).has_msg
        /\ Cardinality(ReportPositions) >= 2
        /\ \E f \in ReportPositions : MessageLineAt(f + 2)
        /\ \E f \in ReportPositions : ~MessageLineAt(f + 2)

(***************************************************************************)
(* C22.  Each bmt_run_all_tests invocation calls bmt_platform_io_init      *)
(* exactly once, before it emits any text and before it reads the tick     *)
(* counter for the first test.                                             *)
(***************************************************************************)
\* The run has been entered.
RunEntered == pc # "load"

\* While the image loads the platform is not initialised; once the run is
\* entered it has been, once, when the channel held nothing but the
\* diagnostics of the load and the tick counter had not been read.
C22_IoInitInvariant ==
    IF RunEntered
    THEN /\ Len(io_init_calls) = 1
         /\ io_init_calls[1].emitted = LoadOutput
         /\ io_init_calls[1].emitted < Nth({k \in 1..Len(out) :
                                               out[k] = Puts(Lit.RUNNING)}, 1)
         /\ io_init_calls[1].tick_reads = 0
    ELSE io_init_calls = <<>>

\* The call is made by the step that enters the run and by no other step.
C22_IoInitOnce ==
    /\ []C22_IoInitInvariant
    /\ [][io_init_calls' # io_init_calls <=> (pc = "load" /\ pc' = "loop")]_vars

\* A run that followed an overflowing registration has returned after
\* reading the tick counter for two tests.
C22_Witness ==
    /\ pc = "returned"
    /\ LoadOutput = 1
    /\ Len(io_init_calls) = 1
    /\ TickReads(trace) = 4
    /\ Len(out) > io_init_calls[1].emitted

(***************************************************************************)
(* C23.  The example program's main returns 0 if all tests pass and a      *)
(* non-zero value otherwise, i.e. its exit status reflects the failure     *)
(* count returned by RUN_ALL_TESTS().                                      *)
(***************************************************************************)
MainExited == pc = "exited"

C23_ExitStatus ==
    MainExited => (exit_status = 0 <=> ret = 0)

\* What main does: its exit status is 0 whatever the run returned.
C23_ExitStatusIsZero ==
    /\ MainExited => exit_status = 0
    /\ ~MainExited => exit_status = -1

\* main has returned after a run in which a test failed.
C23_FailedRunExited == MainExited /\ ret > 0 /\ FailedTests # {}

(***************************************************************************)
(* C24.  For all string pointer pairs, the string-equality checks          *)
(* (ASSERT_STREQ / EXPECT_STREQ) fail when either pointer is NULL or the   *)
(* strings differ and pass only when both are non-NULL and equal, and the  *)
(* inequality checks (ASSERT_STRNE / EXPECT_STRNE) pass exactly when the   *)
(* equality check would fail; neither dereferences a NULL pointer in its   *)
(* comparison.                                                             *)
(***************************************************************************)
\* The two pointers the StringChecks tests check.
PointerS1 == user_args[1]

PointerS2 == user_args[2]

\* Both pointers are non-NULL and point to the same characters.
BothNonNullAndEqual ==
    /\ PointerS1.type = "str"
    /\ PointerS2.type = "str"
    /\ PointerS1.str = PointerS2.str

\* A failure report of statement s is on the channel.
Reported(s) ==
    \E f \in ReportPositions : KindExprLineAt(f + 1, s.kind, s.expr)

\* Statement pos of test idx took the fatal transfer.
JumpedAt(idx, pos) ==
    \E k \in EventsOf("longjmp", idx) : trace[k].ip = pos

\* The executed check at pos of test idx failed: it reported, an ASSERT
\* left the body there, and the test is not recorded as passed.
CheckFailed(idx, pos) ==
    LET s == BodyOf(idx)[pos]
    IN  /\ Reported(s)
        /\ s.op = "ASSERT" <=> JumpedAt(idx, pos)
        /\ Finished(idx) => ~g_bmt_test_cases[idx].last_run_passed

\* The executed check at pos of test idx passed: no report, no transfer.
CheckPassed(idx, pos) ==
    LET s == BodyOf(idx)[pos]
    IN  ~Reported(s) /\ ~JumpedAt(idx, pos)

StreqKinds == {StringMacroText.ASSERT_STREQ, StringMacroText.EXPECT_STREQ}

StrneKinds == {StringMacroText.ASSERT_STRNE, StringMacroText.EXPECT_STRNE}

C24_StringChecks ==
    \A idx \in Registered :
        \A pos \in 1..Len(BodyOf(idx)) :
            Executed(idx, pos) =>
                /\ BodyOf(idx)[pos].kind \in StreqKinds =>
                       IF BothNonNullAndEqual
                       THEN CheckPassed(idx, pos)
                       ELSE CheckFailed(idx, pos)
                /\ BodyOf(idx)[pos].kind \in StrneKinds =>
                       IF BothNonNullAndEqual
                       THEN CheckFailed(idx, pos)
                       ELSE CheckPassed(idx, pos)
                /\ BodyOf(idx)[pos].kind \in StreqKinds \cup StrneKinds =>
                       \A c \in StrcmpCalls(PointerS1, PointerS2) :
                           c[1].type # "null" /\ c[2].type # "null"

\* A returned run over a NULL pointer and an empty string, in which all
\* four checks were executed: the two equality checks failed and the two
\* inequality checks passed.
C24_Witness ==
    /\ pc = "returned"
    /\ user_args = <<NullStrArg, StrArg(<<>>)>>
    /\ \A idx \in {0, 1} : g_bmt_test_cases[idx].func \in {"StringEq", "StringNe"}
    /\ \E idx \in Registered :
           \E pos \in 1..Len(BodyOf(idx)) :
               /\ BodyOf(idx)[pos].kind = StringMacroText.ASSERT_STREQ
               /\ Executed(idx, pos)
               /\ CheckFailed(idx, pos)
    /\ \E idx \in Registered :
           \E pos \in 1..Len(BodyOf(idx)) :
               /\ BodyOf(idx)[pos].kind = StringMacroText.EXPECT_STREQ
               /\ Executed(idx, pos)
               /\ CheckFailed(idx, pos)
    /\ \E idx \in Registered :
           \E pos \in 1..Len(BodyOf(idx)) :
               /\ BodyOf(idx)[pos].kind = StringMacroText.ASSERT_STRNE
               /\ Executed(idx, pos)
               /\ CheckPassed(idx, pos)
    /\ \E idx \in Registered :
           \E pos \in 1..Len(BodyOf(idx)) :
               /\ BodyOf(idx)[pos].kind = StringMacroText.EXPECT_STRNE
               /\ Executed(idx, pos)
               /\ CheckPassed(idx, pos)

(***************************************************************************)
(* C25.  The total duration printed in "[==========] N tests ran.          *)
(* (<total> ms total)" equals the sum of the durations recorded in the     *)
(* descriptors (and printed in the per-test result lines) during that run. *)
(***************************************************************************)
\* The exact sum of the durations recorded in the first k descriptors: its
\* low 32 bits and the number of times the sum passed 2^32.
RECURSIVE SumOfDurations(_)
SumOfDurations(k) ==
    IF k = 0
    THEN [low |-> U32Zero, carry |-> 0]
    ELSE CHOOSE r \in {[low |-> s.low, carry |-> prev.carry + s.carry] :
                           prev \in {SumOfDurations(k - 1)},
                           s \in {ExactSum(SumOfDurations(k - 1).low,
                                           g_bmt_test_cases[k - 1].duration_ms)}} :
             TRUE

\* The text between " tests ran. (" and " ms total)".
TotalText == out[Nth(RanPositions, 1) + 3].str

\* The summary line is on the channel, whole.
TotalLinePrinted ==
    /\ Cardinality(RanPositions) = 1
    /\ Nth(RanPositions, 1) + 4 <= Len(out)
    /\ out[Nth(RanPositions, 1) + 3].call = "puts"
    /\ out[Nth(RanPositions, 1) + 4] = Puts(Lit.MS_TOTAL)

C25_TotalIsSum ==
    pc = "returned" =>
        /\ TotalLinePrinted
        /\ IsUnsignedDecimalOf(TotalText,
               <<SumOfDurations(g_bmt_test_count).carry>>
                   \o SumOfDurations(g_bmt_test_count).low)

\* What the code gives where long is wider than 32 bits: the sum of the
\* recorded durations modulo 2^32.
C25_TotalIsSumMod32WithWideLong ==
    pc = "returned" /\ long_bits = 64 =>
        /\ TotalLinePrinted
        /\ total_duration_ms = SumOfDurations(g_bmt_test_count).low
        /\ IsUnsignedDecimalOf(TotalText,
                               SumOfDurations(g_bmt_test_count).low)

\* A returned run whose printed total is the exact sum of durations that
\* are not all zero.
C25_SumPrinted ==
    /\ pc = "returned"
    /\ g_bmt_test_count > 0
    /\ total_duration_ms # U32Zero
    /\ SumOfDurations(g_bmt_test_count).carry = 0
    /\ IsUnsignedDecimalOf(TotalText, total_duration_ms)

(***************************************************************************)
(* C26.  The registry is append-only and read-only during a run apart from *)
(* the result fields: bmt_run_all_tests leaves the count, the order, and   *)
(* every descriptor's suite name, test name and body reference unchanged,  *)
(* and no operation ever removes or reorders a descriptor.                 *)
(***************************************************************************)
\* What identifies a descriptor: its names and its body reference.
Identity(tc) == <<tc.suite_name, tc.test_name, tc.func>>

\* A step leaves every registered descriptor in its place.
KeepsRegistered ==
    /\ g_bmt_test_count' >= g_bmt_test_count
    /\ \A k \in Registered :
           Identity(g_bmt_test_cases'[k]) = Identity(g_bmt_test_cases[k])

\* A step that changes the count appends one descriptor at the end.
AppendsOnly ==
    g_bmt_test_count' # g_bmt_test_count =>
        /\ pc = "load"
        /\ g_bmt_test_count' = g_bmt_test_count + 1
        /\ g_bmt_test_count < BMT_MAX_TEST_CASES
        /\ Identity(g_bmt_test_cases'[g_bmt_test_count]) =
               <<StoredName(register_calls'[Len(register_calls')].suite_name,
                            BMT_MAX_SUITE_NAME_LEN),
                 StoredName(register_calls'[Len(register_calls')].test_name,
                            BMT_MAX_TEST_NAME_LEN),
                 register_calls'[Len(register_calls')].func>>

\* A step of the run changes nothing of the registry but the result fields
\* of the descriptor it is running.
RunWritesResultsOnly ==
    pc # "load" =>
        /\ g_bmt_test_count' = g_bmt_test_count
        /\ \A k \in 0..(BMT_MAX_TEST_CASES - 1) :
               /\ Identity(g_bmt_test_cases'[k]) =
                      Identity(g_bmt_test_cases[k])
               /\ g_bmt_test_cases'[k] # g_bmt_test_cases[k] =>
                      k = i /\ pc = "after" /\ k \in Registered

C26_RegistryFrame ==
    [][KeepsRegistered /\ AppendsOnly /\ RunWritesResultsOnly]_vars

\* A run of a full registry has returned after a registration was refused,
\* and it wrote the result fields of both descriptors.
C26_Witness ==
    /\ pc = "returned"
    /\ g_bmt_test_count = BMT_MAX_TEST_CASES
    /\ Len(register_calls) > g_bmt_test_count
    /\ \A k \in Registered :
           /\ Finished(k)
           /\ Identity(g_bmt_test_cases[k]) =
                  <<StoredName(register_calls[k + 1].suite_name,
                               BMT_MAX_SUITE_NAME_LEN),
                    StoredName(register_calls[k + 1].test_name,
                               BMT_MAX_TEST_NAME_LEN),
                    register_calls[k + 1].func>>
    /\ \E k \in Registered :
           /\ g_bmt_test_cases[k].last_run_passed
           /\ g_bmt_test_cases[k].duration_ms # U32Zero

(***************************************************************************)
(* C27.  In the message line of a failure report, each interpreted "%s" or *)
(* "%ld" directive renders the argument that the caller passed at that     *)
(* directive's own position among the template's directives, also when an  *)
(* earlier directive of the template is not interpreted (e.g. the "%u" in  *)
(* the ASSERT_STRNEQ / EXPECT_STRNEQ message, whose arguments are n, s1,   *)
(* s2).                                                                    *)
(***************************************************************************)
\* The pieces of the message "Expected first %u chars: "%s", Actual: "%s"".
StrneqMessageText ==
    [ EXPECTED_FIRST |->
          <<"E", "x", "p", "e", "c", "t", "e", "d", " ", "f", "i", "r", "s",
            "t", " ">>,
      CHARS |->
          <<" ", "c", "h", "a", "r", "s", ":", " ", "\"">>,
      ACTUAL |->
          <<"\"", ",", " ", "A", "c", "t", "u", "a", "l", ":", " ", "\"">>,
      QUOTE |->
          <<"\"">>,
      PERCENT_U |->
          <<"%", "u">> ]

StrneqKinds == {StringMacroText.ASSERT_STRNEQ, StringMacroText.EXPECT_STRNEQ}

\* Reports on the channel that an ASSERT_STRNEQ / EXPECT_STRNEQ made.
StrneqReports ==
    {f \in ReportPositions :
        \E idx \in Registered :
            \E pos \in 1..Len(BodyOf(idx)) :
                /\ BodyOf(idx)[pos].kind \in StrneqKinds
                /\ Executed(idx, pos)
                /\ KindExprLineAt(f + 1, BodyOf(idx)[pos].kind,
                                  BodyOf(idx)[pos].expr)}

\* txt starts with head and ends with tail, the two not overlapping.
Encloses(txt, head, tail) ==
    /\ Len(txt) >= Len(head) + Len(tail)
    /\ SubSeq(txt, 1, Len(head)) = head
    /\ SubSeq(txt, Len(txt) - Len(tail) + 1, Len(txt)) = tail

\* The second directive of the message shows s1 (the second argument) and
\* the third shows s2 (the third argument), whatever stands for the "%u".
C27_PositionalArguments ==
    \A f \in StrneqReports :
        /\ MessageLineAt(f + 2)
        /\ Encloses(MessageText(f + 2),
                    StrneqMessageText.EXPECTED_FIRST,
                    StrneqMessageText.CHARS \o OrNullText(PointerS1).str
                        \o StrneqMessageText.ACTUAL
                        \o OrNullText(PointerS2).str
                        \o StrneqMessageText.QUOTE)

\* What the code does: "%u" is written as it stands and takes no argument,
\* so the first "%s" reads the unsigned int n as a string pointer and the
\* second "%s" shows s1.
C27_ArgumentsShifted ==
    \A f \in StrneqReports :
        /\ MessageLineAt(f + 2)
        /\ MessageText(f + 2) =
               StrneqMessageText.EXPECTED_FIRST
               \o StrneqMessageText.PERCENT_U
               \o StrneqMessageText.CHARS \o <<"undefined">>
               \o StrneqMessageText.ACTUAL \o OrNullText(PointerS1).str
               \o StrneqMessageText.QUOTE

\* A returned run in which both length-bounded checks reported.
C27_BothReported ==
    /\ pc = "returned"
    /\ Cardinality(StrneqReports) = 2
    /\ PointerS1.type = "str"
    /\ PointerS2.type = "str"
    /\ PointerS1.str # PointerS2.str

(***************************************************************************)
(* C28.  For every message template, including one whose last character is *)
(* a lone "%", the reporter's scan stops at the template's terminating     *)
(* NUL: it never reads a position past the end of the template and emits   *)
(* nothing derived from beyond it.                                         *)
(***************************************************************************)
\* The message on the channel holds what the characters of the template
\* up to its terminator give, and nothing after that.
MessageStopsAtTerminator(k) ==
    /\ MessageLineAt(k)
    /\ MessageText(k) = Formatted(user_fmt, user_args, <<>>)

\* The message on the channel is the one the template and its arguments
\* give whatever the memory after the template's terminator holds.
MessageFromTemplateOnly(k) ==
    /\ MessageLineAt(k)
    /\ \A beyond \in MemoryAfter :
           MessageText(k) = Formatted(user_fmt, user_args, beyond)

C28_ScanStopsAtTerminator ==
    CustomReported =>
        \E k \in MessagePositions :
            MessagePositions = {k} /\ MessageStopsAtTerminator(k)

\* The scan stays inside every template that does not end with a "%".
C28_HoldsWithoutTrailingPercent ==
    CustomReported /\ (user_fmt = <<>> \/ user_fmt[Len(user_fmt)] # "%") =>
        \E k \in MessagePositions :
            MessagePositions = {k} /\ MessageFromTemplateOnly(k)

\* A report whose template ended with a lone "%" shows a character of the
\* memory after the template.
C28_BeyondShown ==
    /\ CustomReported
    /\ user_fmt = <<"s", "%">>
    /\ \E k \in MessagePositions :
           MessageText(k) = <<"s", "%", NUL, "x">>

(***************************************************************************)
(* C29.  For every assertion-kind tag used by the macros and every         *)
(* expression text of any length, the line "  kind(expr)" with its line    *)
(* end, as the reporter assembles it, occupies with its terminator at most *)
(* the 256 bytes of the reporter's stack buffer, the expression being cut  *)
(* as needed.                                                              *)
(***************************************************************************)
\* Bytes the line of statement s takes when nothing is cut: two spaces, the
\* tag, "(", the expression, ")", the line end and the terminator.
UncutBytes(s) == Len(s.kind) + Len(s.expr) + 7

\* The call at position k printed a line that, with its terminator, fits
\* the buffer.
LineFitsAt(k) ==
    /\ k <= Len(out)
    /\ out[k].call = "puts"
    /\ Len(out[k].str) + 1 <= ReportBufferSize

\* Every report's "  kind(expr)" line was assembled within the buffer.
C29_LineFitsBuffer ==
    \A j \in 1..Cardinality(ReportPositions) :
        Nth(ReportPositions, j) + 1 <= Len(out) =>
            LineFitsAt(Nth(ReportPositions, j) + 1)

\* What the code does keep: a line that fits uncut is printed whole and
\* within the buffer, and a line that is printed never takes more than two
\* bytes beyond the buffer.
C29_FitsWhenUncutFits ==
    /\ Cardinality(ReportPositions) = Cardinality(ReportingEvents)
    /\ \A j \in 1..Cardinality(ReportPositions) :
           LET f == Nth(ReportPositions, j)
               s == StmtOf(Nth(ReportingEvents, j))
           IN  /\ UncutBytes(s) <= ReportBufferSize =>
                      /\ LineFitsAt(f + 1)
                      /\ KindExprLineAt(f + 1, s.kind, s.expr)
               /\ out[f + 1].call = "puts" =>
                      Len(out[f + 1].str) + 1 <= ReportBufferSize + 2

\* A report whose expression was cut and whose line still went past the
\* buffer has been printed, for the shortest and for the longest tag tried.
C29_CutLineOverflows ==
    \E a, b \in 1..Cardinality(ReportPositions) :
        LET fa == Nth(ReportPositions, a)
            fb == Nth(ReportPositions, b)
            sa == StmtOf(Nth(ReportingEvents, a))
            sb == StmtOf(Nth(ReportingEvents, b))
        IN  /\ sa.kind = MacroText.EXPECT_TRUE
            /\ sb.kind = ExprTestText.EXPECT_NOT_NULL
            /\ out[fa + 1].call = "puts"
            /\ out[fb + 1].call = "puts"
            /\ Len(out[fa + 1].str) + 1 = ReportBufferSize + 2
            /\ Len(out[fb + 1].str) + 1 = ReportBufferSize + 2
            /\ UncutBytes(sa) > ReportBufferSize + 2

(***************************************************************************)
(* C30.  After any sequence of registrations followed by a run,            *)
(* tests_passed + tests_failed equals the registry count, and the N        *)
(* announced in "[==========] Running N tests." equals both the number of  *)
(* "[ RUN      ]" lines emitted and the N of "[==========] N tests ran.".  *)
(***************************************************************************)
\* Positions where the "[==========] Running N tests." line starts.
RunningPositions ==
    {k \in 1..Len(out) :
        /\ out[k] = Puts(Lit.RUNNING)
        /\ k + 2 <= Len(out)
        /\ out[k + 2] = Puts(Lit.TESTS_DOT)}

\* The line starting at position k announces the number n.
Announces(k, n) ==
    /\ out[k + 1].call = "puts"
    /\ IsDecimalOf(out[k + 1].str, IntToLong(n))

\* The run is over.
RunOver == pc \in {"returned", "exited"}

C30_CountsAgree ==
    /\ RunEntered => /\ Cardinality(RunningPositions) = 1
                     /\ \A h \in RunningPositions :
                            Announces(h, g_bmt_test_count)
    /\ pc = "loop" => tests_passed + tests_failed = i
    /\ RunOver =>
           /\ tests_passed + tests_failed = g_bmt_test_count
           /\ Cardinality(RanPositions) = 1
           /\ \A h \in RunningPositions, r \in RanPositions :
                  \E n \in 0..BMT_MAX_TEST_CASES :
                      /\ Announces(h, n)
                      /\ Announces(r, n)
                      /\ Cardinality(RunPositions) = n
                      /\ n = g_bmt_test_count

\* A run has returned after more registration calls than the registry
\* holds, with tests that passed and tests that failed, and the lines
\* announce more than one test.
C30_Witness ==
    /\ RunOver
    /\ Len(register_calls) > g_bmt_test_count
    /\ tests_passed > 0
    /\ tests_failed > 0
    /\ Cardinality(RunPositions) > 1
    /\ \E h \in RunningPositions, r \in RanPositions :
           /\ Announces(h, Cardinality(RunPositions))
           /\ Announces(r, Cardinality(RunPositions))

(***************************************************************************)
(* C31.  Within one test body, once a non-fatal check has failed the       *)
(* non-fatal-failure flag stays true until the runner starts the next      *)
(* test: later passing checks, SUCCEED(), ADD_FAILURE() and further        *)
(* failure reports never clear it.                                         *)
(***************************************************************************)
\* Events of the trace at which test idx executed a non-fatal check that
\* failed.
FailedExpectEvents(idx) ==
    {p \in 1..Len(trace) :
        /\ trace[p].ev = "stmt"
        /\ trace[p].idx = idx
        /\ FailsExpect(StmtOf(p))}

\* Events of the trace after event p at which test idx executed a statement
\* of kind op whose check, if it is one, had the outcome cond.
LaterEvents(idx, p, op, cond) ==
    {q \in (p + 1)..Len(trace) :
        /\ trace[q].ev = "stmt"
        /\ trace[q].idx = idx
        /\ StmtOf(q).op = op
        /\ StmtOf(q).cond = cond}

\* While a test is in its body or being judged, the flag is true exactly
\* when one of its non-fatal checks has failed.
FlagTracksFailedExpects ==
    pc \in {"body", "after"} =>
        (g_bmt_current_test_failed_expect <=> FailedExpectEvents(i) # {})

\* The flag goes from true to false only in the step that starts a test.
FlagClearedOnlyAtTestStart ==
    [][g_bmt_current_test_failed_expect /\ ~g_bmt_current_test_failed_expect'
           => pc = "loop" /\ pc' = "body"]_vars

C31_FlagSticks == []FlagTracksFailedExpects /\ FlagClearedOnlyAtTestStart

\* A body is past a failed non-fatal check followed by a passing check, a
\* SUCCEED(), an ADD_FAILURE() and a further failed check, and the flag is
\* true.
C31_Witness ==
    /\ pc = "body"
    /\ g_bmt_current_test_failed_expect
    /\ \E p \in FailedExpectEvents(i) :
           /\ LaterEvents(i, p, "EXPECT", TRUE) # {}
           /\ LaterEvents(i, p, "SUCCEED", TRUE) # {}
           /\ LaterEvents(i, p, "ADD_FAILURE", FALSE) # {}
           /\ LaterEvents(i, p, "EXPECT", FALSE) # {}
           /\ LaterEvents(i, p, "ASSERT", TRUE) # {}

(***************************************************************************)
(* C32.  No text is emitted to the output channel before                   *)
(* bmt_platform_io_init has been called at least once; this includes the   *)
(* registration-overflow diagnostic emitted by bmt_register_test during    *)
(* load-time registration.                                                 *)
(***************************************************************************)
\* The platform has been initialised.
IoInitialised == Len(io_init_calls) >= 1

\* Whatever is on the channel was emitted after the platform was
\* initialised.
C32_NoTextBeforeIoInit ==
    /\ ~IoInitialised => out = <<>>
    /\ IoInitialised => io_init_calls[1].emitted = 0

\* What the code does keep: before the initialisation the channel holds
\* nothing but overflow diagnostics, one per registration call that found
\* the registry full, and none while the registry has room.
C32_OnlyOverflowDiagnosticsBeforeIoInit ==
    /\ ~IoInitialised =>
           /\ Len(out) = Len(register_calls) - g_bmt_test_count
           /\ \A k \in 1..Len(out) : out[k] = Puts(Lit.ERR_MAX)
    /\ Len(register_calls) <= BMT_MAX_TEST_CASES /\ IoInitialised =>
           io_init_calls[1].emitted = 0

\* The overflow diagnostic is on the channel and the platform has not been
\* initialised.
C32_DiagnosticBeforeIoInit ==
    /\ ~IoInitialised
    /\ pc = "load"
    /\ Len(register_calls) = BMT_MAX_TEST_CASES + 1
    /\ out = <<Puts(Lit.ERR_MAX)>>

(***************************************************************************)
(* C33.  Calling bmt_run_all_tests a second time re-executes every         *)
(* registered test, and the descriptors' pass/fail fields, the pass/fail   *)
(* counters and the returned failure count are determined only by the      *)
(* outcomes of that second run: no flag, counter, total duration or        *)
(* last_run_passed value of the first run carries over.                    *)
(***************************************************************************)
\* Events of kind ev that test idx produced in the latest run entered.
LatestRunEvents(ev, idx) ==
    {p \in 1..Len(trace) :
        /\ trace[p].ev = ev
        /\ trace[p].idx = idx
        /\ trace[p].run = Len(io_init_calls)}

\* Events of kind ev that test idx produced in run r.
EventsOfRun(ev, idx, r) ==
    {p \in 1..Len(trace) :
        trace[p].ev = ev /\ trace[p].idx = idx /\ trace[p].run = r}

\* In the latest run test idx made no jump out of its body and none of the
\* non-fatal checks it executed failed.
PassedInLatestRun(idx) ==
    /\ LatestRunEvents("longjmp", idx) = {}
    /\ \A p \in LatestRunEvents("stmt", idx) : ~FailsExpect(StmtOf(p))

\* Registered tests that passed in the latest run.
PassedSet == {idx \in 0..(g_bmt_test_count - 1) : PassedInLatestRun(idx)}

C33_SecondRunStandsAlone ==
    /\ pc = "loop" => tests_passed + tests_failed = i
    /\ pc = "returned" =>
           /\ \A idx \in 0..(g_bmt_test_count - 1) :
                  /\ Cardinality(LatestRunEvents("invoke", idx)) = 1
                  /\ g_bmt_test_cases[idx].last_run_passed
                         <=> PassedInLatestRun(idx)
           /\ tests_passed = Cardinality(PassedSet)
           /\ tests_failed = g_bmt_test_count - Cardinality(PassedSet)
           /\ ret = tests_failed
           /\ total_duration_ms = SumOfDurations(g_bmt_test_count).low

\* A second run has returned in which a test that jumped out of its body in
\* the first run passed, a test that passed the first run failed, and the
\* total is not zero.
C33_Witness ==
    /\ pc = "returned"
    /\ Len(io_init_calls) = 2
    /\ \E a, b \in 0..(g_bmt_test_count - 1) :
           /\ EventsOfRun("longjmp", a, 1) # {}
           /\ EventsOfRun("invoke", a, 2) # {}
           /\ g_bmt_test_cases[a].last_run_passed
           /\ g_bmt_test_cases[b].func = "PassesFirstRunOnly"
           /\ EventsOfRun("longjmp", b, 1) = {}
           /\ EventsOfRun("longjmp", b, 2) # {}
           /\ ~g_bmt_test_cases[b].last_run_passed
    /\ tests_passed = 1
    /\ tests_failed = 1
    /\ total_duration_ms # U32Zero

(***************************************************************************)
(* C34.  Each comparison check (ASSERT_EQ / EXPECT_EQ and the string       *)
(* checks, for example) evaluates each of its operand expressions exactly  *)
(* once per execution of the check, whether the check passes or fails.     *)
(***************************************************************************)
\* The statement whose execution entry e of the history records.
CheckOf(e) == BodyOf(e.idx)[e.ip]

\* Entries of the history made by comparison checks.
ComparisonEntries ==
    {k \in 1..Len(operand_evals) : operand_evals[k].evals # <<>>}

C34_OperandsEvaluatedOnce ==
    \A k \in ComparisonEntries :
        \A o \in 1..Len(operand_evals[k].evals) :
            operand_evals[k].evals[o] = 1

\* What the code does keep for the integer comparisons: a check that passes
\* evaluates each operand once, and a check that fails evaluates each
\* twice, the second time for the message.
C34_EqOnceWhenPassedTwiceWhenFailed ==
    \A k \in ComparisonEntries :
        CheckOf(operand_evals[k]).kind
            \in {MacroText.ASSERT_EQ, MacroText.EXPECT_EQ} =>
                operand_evals[k].evals =
                    IF CheckOf(operand_evals[k]).cond
                    THEN <<1, 1>>
                    ELSE <<2, 2>>

\* What holds of the string checks: a check of two non-null strings
\* evaluates each of them twice when it passes, and no string check
\* evaluates an operand more than four times.
C34_StringOperandsRepeated ==
    \A k \in ComparisonEntries :
        /\ \A o \in 1..Len(operand_evals[k].evals) :
               operand_evals[k].evals[o] <= 4
        /\ CheckOf(operand_evals[k]).kind \in StreqKinds \cup StrneKinds
           /\ CheckOf(operand_evals[k]).cond
           /\ PointerS1.type # "null"
           /\ PointerS2.type # "null" =>
               operand_evals[k].evals = <<2, 2>>

\* An integer comparison has passed and another has failed, the failed one
\* having evaluated each operand twice.
C34_FailedEqEvaluatedTwice ==
    \E a, b \in ComparisonEntries :
        /\ CheckOf(operand_evals[a]).kind = MacroText.EXPECT_EQ
        /\ ~CheckOf(operand_evals[a]).cond
        /\ operand_evals[a].evals = <<2, 2>>
        /\ CheckOf(operand_evals[b]).kind = MacroText.ASSERT_EQ
        /\ CheckOf(operand_evals[b]).cond
        /\ operand_evals[b].evals = <<1, 1>>

(***************************************************************************)
(* C35.  For every value of the platform's long type (of 32 or of 64 bits) *)
(* passed to a "%ld" directive, the decimal text with its sign and         *)
(* terminator fits the reporter's 20-byte conversion buffer, and for every *)
(* int line number the text fits the 12-byte line buffer.                  *)
(***************************************************************************)
\* The call at position k printed a conversion that, with its terminator,
\* fits a buffer of size bytes.
ConversionFitsAt(k, size) ==
    /\ k <= Len(out)
    /\ out[k].call = "puts"
    /\ Len(out[k].str) + 1 <= size

\* Position of the first "%ld" conversion of the message that starts at
\* position m: the ten characters of "Expected: " lie between.
FirstConversionOf(m) == m + 11

C35_ConversionsFitBuffers ==
    /\ \A f \in ReportPositions : ConversionFitsAt(f - 1, LineBufferSize)
    /\ \A m \in MessagePositions :
           ConversionFitsAt(FirstConversionOf(m), ConversionBufferSize)

\* Magnitude a is at least magnitude b, both of the same number of limbs.
MagGe(a, b) ==
    \/ a = b
    \/ \E k \in 1..Len(a) :
           /\ a[k] > b[k]
           /\ \A j \in 1..(k - 1) : a[j] = b[j]

\* The long value is -(10^18) or less: a sign and nineteen digits.
TwentyCharacters(val) ==
    val.neg /\ MagGe(val.mag, <<3552, 46771, 42852, 0>>)

\* What the code does keep: the line number always fits its buffer, and a
\* conversion overruns the conversion buffer exactly for the values of a
\* 64-bit long that take a sign and nineteen digits.
C35_FitsUnlessTwentyCharacters ==
    /\ \A f \in ReportPositions : ConversionFitsAt(f - 1, LineBufferSize)
    /\ \A m \in MessagePositions :
           ConversionFitsAt(FirstConversionOf(m), ConversionBufferSize)
               <=> ~TwentyCharacters(user_args[1].val)
    /\ TwentyCharacters(user_args[1].val) => long_bits = 64

\* A report with a line number of ten digits has shown a sign and nineteen
\* digits, which with the terminator take 21 bytes.
C35_TwentyCharactersShown ==
    \E f \in ReportPositions, m \in MessagePositions :
        /\ m = f + 2
        /\ out[f - 1] = Puts(bmt_itoa(IntToLong(TenDigitLine)))
        /\ Len(out[f - 1].str) = 10
        /\ out[FirstConversionOf(m)].call = "puts"
        /\ Len(out[FirstConversionOf(m)].str) + 1 = ConversionBufferSize + 1

(***************************************************************************)
(* C36.  The last line of every run is "<failed_count> FAILED TEST" when   *)
(* exactly one test failed and "<failed_count> FAILED TESTS" for every     *)
(* other count, 0 included; it is emitted whether or not any test failed.  *)
(***************************************************************************)
\* Registered tests recorded as failed.
FailedCount ==
    Cardinality({k \in 0..(g_bmt_test_count - 1) :
                    ~g_bmt_test_cases[k].last_run_passed})

\* Positions of a closing line's words.
ClosingPositions ==
    {k \in 1..Len(out) :
        out[k] \in {Puts(Lit.FAILED_TEST), Puts(Lit.FAILED_TESTS)}}

\* The channel ends with an empty line's end, the decimal text of n, and the
\* words of the closing line in the singular exactly when n is 1.
EndsWithClosingLine(n) ==
    /\ Len(out) >= 3
    /\ out[Len(out) - 2] = Puts(Lit.CRLF)
    /\ out[Len(out) - 1].call = "puts"
    /\ IsDecimalOf(out[Len(out) - 1].str, IntToLong(n))
    /\ out[Len(out)] =
           Puts(IF n = 1
                THEN <<" ", "F", "A", "I", "L", "E", "D", " ", "T", "E", "S",
                       "T", "\r", "\n">>
                ELSE <<" ", "F", "A", "I", "L", "E", "D", " ", "T", "E", "S",
                       "T", "S", "\r", "\n">>)

C36_ClosingLine ==
    IF pc = "returned"
    THEN /\ EndsWithClosingLine(FailedCount)
         /\ ClosingPositions = {Len(out)}
         /\ ret = FailedCount
    ELSE ClosingPositions = {}

\* A run of two tests has returned with no test failed, and the closing
\* line is on the channel in the plural.
C36_Witness ==
    /\ pc = "returned"
    /\ g_bmt_test_count = 2
    /\ FailedCount = 0
    /\ out[Len(out) - 1] = Puts(<<"0">>)
    /\ out[Len(out)] = Puts(Lit.FAILED_TESTS)

\* Runs have also returned with exactly one test failed, the closing line in
\* the singular, and with two failed, in the plural.
C36_OneFailedReached ==
    /\ pc = "returned"
    /\ FailedCount = 1
    /\ out[Len(out)] = Puts(Lit.FAILED_TEST)

C36_TwoFailedReached ==
    /\ pc = "returned"
    /\ FailedCount = 2
    /\ out[Len(out)] = Puts(Lit.FAILED_TESTS)

====
